---- MODULE Spec2Model ----
(***************************************************************************)
(* A model of at::Tensor (aten/src/ATen/templates/TensorBody.h): the       *)
(* handle over a reference-counted TensorImpl, its borrowed form used by   *)
(* c10::MaybeOwned<Tensor>, the contiguous fast paths, the size/stride,   *)
(* byte size and memory format queries, the hooks, the version counter,    *)
(* views and their base, grad and backward.                                *)
(*                                                                         *)
(* c10::intrusive_ptr, c10::MaybeOwned, TensorImpl, the dispatcher and     *)
(* c10::maybe_wrap_dim are not part of TensorBody.h; the operators that    *)
(* stand for them follow the behaviour the specification gives them.       *)
(***************************************************************************)
EXTENDS Integers, Sequences, FiniteSets

\* ------------------------------------------------------------------ bounds
NumObj == 2
NumHandles == 2
NumViews == 1
NumThreads == 3
MaxOwn == 3
MaxRank == 2
MaxSize == 2
MaxStride == 2

Obj == 1..NumObj
Handle == 1..NumHandles
View == 1..NumViews
Thread == 1..NumThreads

\* impl_ of an undefined Tensor: the UndefinedTensorImpl singleton, never counted.
Null == 0
Ptr == Obj \cup {Null}

MemoryFormat == {"Contiguous", "ChannelsLast"}

VARIABLES
    live,       \* the Tensor objects (slots) that are constructed
    impl_,      \* impl_[h]: the TensorImpl a constructed Tensor points to
    ostate,     \* per TensorImpl: "unalloc", "live" or "freed"
    refcount_,  \* per TensorImpl: the strong count
    nfree,      \* per TensorImpl: how many times it was deleted
    contig,     \* per TensorImpl: the memory formats it is contiguous in
    view,       \* the MaybeOwned<Tensor> objects
    last,       \* the last operation and its arguments (old: what impl_ held before)
    \* Threads that copy and destroy their own Tensors of one shared TensorImpl:
    trc,        \* the strong count of the shared TensorImpl
    tfreed,     \* how many times the shared TensorImpl was deleted
    own,        \* own[t]: how many Tensors of it thread t holds
    pc,         \* pc[t]: where thread t is in its copy or destruction
    seen,       \* seen[t]: a count the thread read earlier (unused by the code)
    \* One defined Tensor and the last size/stride query on it:
    sizes_,     \* sizes() of its TensorImpl
    strides_,   \* strides() of its TensorImpl
    query,      \* the last query, its argument and its result
    \* A caller that wraps TensorImpls it holds by intrusive_ptr:
    tensor_impl,\* the caller's intrusive_ptr: null, or a TensorImpl and one reference
    broken,     \* the TensorImpls that do not satisfy the invariants of a Tensor
    enforced,   \* the TensorImpls on which enforce_invariants ran and passed
    \* Queries on Tensors that may be undefined:
    asked,      \* the last query, the Tensor it was made on and its result
    \* The backward hooks of one Tensor that requires grad:
    hooks_,     \* the registered hooks, in the order the engine calls them
    next_pos,   \* the position the next registered hook gets
    issued,     \* the positions that register_hook has returned so far
    hlast,      \* the last hook operation, its arguments and what it returned
    \* The autograd record of each TensorImpl:
    version_,   \* version_[o]: the version counter of TensorImpl o
    view_of,    \* view_of[o]: the base of TensorImpl o when o is a view, else null
    grad_fn_,   \* grad_fn_[o]: the Node that o holds as its grad_fn (0: none)
    attr_version_, \* attr_version_[o]: the version of the base grad_fn_[o] was derived at
    nodes,      \* how many Nodes have been made
    glast,      \* the last grad_fn() query and what it returned
    \* The grad of the Tensor that has the hooks:
    grad_,      \* the Tensor that grad() returns: undefined, or a gradient
    dlast,      \* the last operation on grad_ and its argument
    \* In-place operations of threads, and what other threads see of them:
    data_,      \* data_[o]: how many in-place changes the data of TensorImpl o holds
    sync,       \* sync[o]: the thread that holds the caller's lock for o (0: none)
    mpc,        \* mpc[t]: where thread t is in its in-place operation, and on what
    obs,        \* the last observation: the data and the version a thread read
    \* One defined Tensor, asked for its byte size and its memory format:
    meta,       \* what its TensorImpl holds: layout, sizes, strides, itemsize
    mres,       \* the last such query, its argument and its result
    \* Borrowed MaybeOwned<Tensor> objects that are assigned to one another:
    borrow_,    \* borrow_[b]: the borrowed Tensor that the b-th of them holds
    \* A Tensor on which backward() is called:
    bcall       \* the last call of backward(): its arguments, what reached _backward

ownVars == <<live, impl_, ostate, refcount_, nfree, contig, view, last>>
thrVars == <<trc, tfreed, own, pc, seen>>
dimVars == <<sizes_, strides_, query>>
wrapVars == <<tensor_impl, broken, enforced>>
askVars == <<asked>>
hookVars == <<hooks_, next_pos, issued, hlast>>
verVars == <<version_>>
gfnVars == <<view_of, grad_fn_, attr_version_, nodes, glast>>
gradVars == <<grad_, dlast>>
bumpVars == <<data_, sync, mpc, obs>>
attrVars == <<meta, mres>>
borVars == <<borrow_>>
bwdVars == <<bcall>>
moreVars == <<bumpVars, attrVars, borVars, bwdVars>>
moreButBump == <<attrVars, borVars, bwdVars>>
moreButAttr == <<bumpVars, borVars, bwdVars>>
moreButBor == <<bumpVars, attrVars, bwdVars>>
moreButBwd == <<bumpVars, attrVars, borVars>>
\* The variables that the operations on Tensors, threads and sizes leave alone,
\* and what is left of them for each of their groups.
restVars == <<wrapVars, askVars, hookVars, verVars, gfnVars, gradVars, moreVars>>
restButWrap == <<askVars, hookVars, verVars, gfnVars, gradVars, moreVars>>
restButAsk == <<wrapVars, hookVars, verVars, gfnVars, gradVars, moreVars>>
restButHook == <<wrapVars, askVars, verVars, gfnVars, gradVars, moreVars>>
restButVer == <<wrapVars, askVars, hookVars, gfnVars, gradVars, moreVars>>
restButGfn == <<wrapVars, askVars, hookVars, verVars, gradVars, moreVars>>
restOld == <<wrapVars, askVars, hookVars, verVars, gfnVars, gradVars>>
restButGrad == <<wrapVars, askVars, hookVars, verVars, gfnVars, moreVars>>

NoView == [tag |-> "none", impl |-> Null]
NoOp == [op |-> "init"]

\* --------------------------------------------------- intrusive_ptr, heap
\* The heap part of the state, so that helpers can be composed.
Heap == [ostate |-> ostate, rc |-> refcount_, nfree |-> nfree, contig |-> contig]

\* intrusive_ptr::retain_: one more strong reference, nothing for null.
retain_(hp, p) ==
    IF p = Null THEN hp
    ELSE [hp EXCEPT !.rc[p] = @ + 1]

\* intrusive_ptr::reset_: one strong reference less; the TensorImpl is deleted,
\* and its metadata with it, when the count reaches zero. Nothing for null.
reset_(hp, p) ==
    IF p = Null THEN hp
    ELSE IF hp.rc[p] - 1 = 0
         THEN [hp EXCEPT !.rc[p] = 0, !.ostate[p] = "freed", !.nfree[p] = @ + 1,
                         !.contig[p] = {}]
         ELSE [hp EXCEPT !.rc[p] = @ - 1]

\* c10::make_intrusive: a new TensorImpl holding one strong reference.
FreshObj == CHOOSE o \in Obj : ostate[o] = "unalloc" /\ \A q \in Obj : ostate[q] = "unalloc" => o <= q
CanAlloc == \E o \in Obj : ostate[o] = "unalloc"
make_intrusive(hp, o, fmts) ==
    [hp EXCEPT !.rc[o] = 1, !.ostate[o] = "live", !.contig[o] = fmts]

SetHeap(hp) ==
    /\ ostate' = hp.ostate
    /\ refcount_' = hp.rc
    /\ nfree' = hp.nfree
    /\ contig' = hp.contig

\* ------------------------------------------------------- Tensor queries
defined(h) == impl_[h] # Null

\* An is_same that compares what the two TensorImpls hold.
is_same_ByContent(h, g) ==
    IF defined(h) /\ defined(g)
    THEN contig[impl_[h]] = contig[impl_[g]]
    ELSE impl_[h] = impl_[g]

is_same(h, g) == impl_[h] = impl_[g]
use_count(h) == IF impl_[h] = Null THEN 0 ELSE refcount_[impl_[h]]
is_contiguous(h, mf) == mf \in contig[impl_[h]]

\* ---------------------------------------------------------------- Init
OwnInit ==
    /\ live = {}
    /\ impl_ = [h \in Handle |-> Null]
    /\ ostate = [o \in Obj |-> "unalloc"]
    /\ refcount_ = [o \in Obj |-> 0]
    /\ nfree = [o \in Obj |-> 0]
    /\ contig = [o \in Obj |-> {}]
    /\ view = [v \in View |-> NoView]
    /\ last = NoOp

\* ------------------------------------------------------------- actions
\* Tensor(){}
DefaultConstruct(h) ==
    /\ h \notin live
    /\ live' = live \cup {h}
    /\ impl_' = [impl_ EXCEPT ![h] = Null]
    /\ last' = [op |-> "DefaultConstruct", h |-> h]
    /\ UNCHANGED <<ostate, refcount_, nfree, contig, view>>
    /\ UNCHANGED <<thrVars, dimVars, restVars>>

\* detail::make_tensor: Tensor(c10::make_intrusive<T>(...)); the Tensor takes
\* over the reference the new TensorImpl was made with.
make_tensor(h, fmts) ==
    /\ h \notin live
    /\ CanAlloc
    /\ LET o == FreshObj IN
        /\ SetHeap(make_intrusive(Heap, o, fmts))
        /\ live' = live \cup {h}
        /\ impl_' = [impl_ EXCEPT ![h] = o]
        /\ last' = [op |-> "make_tensor", h |-> h, obj |-> o]
    /\ UNCHANGED view
    /\ UNCHANGED <<thrVars, dimVars, restVars>>

\* A copy constructor that takes the pointer and not the reference.
CopyConstruct_NoRetain(h, g) ==
    /\ h \notin live
    /\ g \in live
    /\ live' = live \cup {h}
    /\ impl_' = [impl_ EXCEPT ![h] = impl_[g]]
    /\ last' = [op |-> "CopyConstruct", h |-> h, g |-> g]
    /\ UNCHANGED <<ostate, refcount_, nfree, contig, view>>
    /\ UNCHANGED <<thrVars, dimVars, restVars>>

\* Tensor(const Tensor&) = default
CopyConstruct(h, g) ==
    /\ h \notin live
    /\ g \in live
    /\ SetHeap(retain_(Heap, impl_[g]))
    /\ live' = live \cup {h}
    /\ impl_' = [impl_ EXCEPT ![h] = impl_[g]]
    /\ last' = [op |-> "CopyConstruct", h |-> h, g |-> g]
    /\ UNCHANGED view
    /\ UNCHANGED <<thrVars, dimVars, restVars>>

\* A move constructor that leaves the source as it was.
MoveConstruct_KeepsSource(h, g) ==
    /\ h \notin live
    /\ g \in live
    /\ live' = live \cup {h}
    /\ impl_' = [impl_ EXCEPT ![h] = impl_[g]]
    /\ last' = [op |-> "MoveConstruct", h |-> h, g |-> g]
    /\ UNCHANGED <<ostate, refcount_, nfree, contig, view>>
    /\ UNCHANGED <<thrVars, dimVars, restVars>>

\* Tensor(Tensor&&) = default
MoveConstruct(h, g) ==
    /\ h \notin live
    /\ g \in live
    /\ live' = live \cup {h}
    /\ impl_' = [impl_ EXCEPT ![h] = impl_[g], ![g] = Null]
    /\ last' = [op |-> "MoveConstruct", h |-> h, g |-> g]
    /\ UNCHANGED <<ostate, refcount_, nfree, contig, view>>
    /\ UNCHANGED <<thrVars, dimVars, restVars>>

\* A copy assignment that gives up the old reference before it takes the new.
CopyAssign_ReleaseFirst(h, g) ==
    /\ h \in live
    /\ g \in live
    /\ SetHeap(retain_(reset_(Heap, impl_[h]), impl_[g]))
    /\ impl_' = [impl_ EXCEPT ![h] = impl_[g]]
    /\ last' = [op |-> "CopyAssign", h |-> h, g |-> g, old |-> impl_[h]]
    /\ UNCHANGED <<live, view>>
    /\ UNCHANGED <<thrVars, dimVars, restVars>>

\* Tensor& operator=(const Tensor& x) & { impl_ = x.impl_; }
\* The new reference is taken before the old one is given up.
CopyAssign(h, g) ==
    /\ h \in live
    /\ g \in live
    /\ SetHeap(reset_(retain_(Heap, impl_[g]), impl_[h]))
    /\ impl_' = [impl_ EXCEPT ![h] = impl_[g]]
    /\ last' = [op |-> "CopyAssign", h |-> h, g |-> g, old |-> impl_[h]]
    /\ UNCHANGED <<live, view>>
    /\ UNCHANGED <<thrVars, dimVars, restVars>>

\* Tensor& operator=(Tensor&& x) & { impl_ = std::move(x.impl_); }
\* for a source other than the destination.
MoveAssign(h, g) ==
    /\ h \in live
    /\ g \in live
    /\ h # g
    /\ SetHeap(reset_(Heap, impl_[h]))
    /\ impl_' = [impl_ EXCEPT ![h] = impl_[g], ![g] = Null]
    /\ last' = [op |-> "MoveAssign", h |-> h, g |-> g, old |-> impl_[h]]
    /\ UNCHANGED <<live, view>>
    /\ UNCHANGED <<thrVars, dimVars, restVars>>

\* A reset that forgets the pointer without giving up its reference.
reset_Leak(h) ==
    /\ h \in live
    /\ impl_' = [impl_ EXCEPT ![h] = Null]
    /\ last' = [op |-> "reset", h |-> h, old |-> impl_[h]]
    /\ UNCHANGED <<live, ostate, refcount_, nfree, contig, view>>
    /\ UNCHANGED <<thrVars, dimVars, restVars>>

\* void reset() { impl_.reset(); }
reset(h) ==
    /\ h \in live
    /\ SetHeap(reset_(Heap, impl_[h]))
    /\ impl_' = [impl_ EXCEPT ![h] = Null]
    /\ last' = [op |-> "reset", h |-> h, old |-> impl_[h]]
    /\ UNCHANGED <<live, view>>
    /\ UNCHANGED <<thrVars, dimVars, restVars>>

\* ~Tensor(): "the destructor decrements the reference count by calling
\* release() on the TensorImpl it points to".
Destroy(h) ==
    /\ h \in live
    /\ SetHeap(reset_(Heap, impl_[h]))
    /\ live' = live \ {h}
    /\ impl_' = [impl_ EXCEPT ![h] = Null]
    /\ last' = [op |-> "Destroy", h |-> h, old |-> impl_[h]]
    /\ UNCHANGED view
    /\ UNCHANGED <<thrVars, dimVars, restVars>>

\* Tensor __dispatch_contiguous(memory_format): the dispatcher materializes a
\* new TensorImpl that conforms to memory_format and returns the Tensor that
\* owns it.
__dispatch_contiguous(hp, o, mf, others) ==
    make_intrusive(hp, o, {mf} \cup others)

\* A contiguous that tests the default format whatever format was asked for.
contiguous_IgnoresFormat(g, h, mf) ==
    /\ h \in live
    /\ defined(h)
    /\ g \notin live
    /\ IF is_contiguous(h, "Contiguous")
       THEN /\ SetHeap(retain_(Heap, impl_[h]))
            /\ impl_' = [impl_ EXCEPT ![g] = impl_[h]]
            /\ last' = [op |-> "contiguous", h |-> h, g |-> g, mf |-> mf,
                        dispatched |-> FALSE]
       ELSE /\ CanAlloc
            /\ \E others \in SUBSET MemoryFormat :
                 SetHeap(__dispatch_contiguous(Heap, FreshObj, mf, others))
            /\ impl_' = [impl_ EXCEPT ![g] = FreshObj]
            /\ last' = [op |-> "contiguous", h |-> h, g |-> g, mf |-> mf,
                        dispatched |-> TRUE]
    /\ live' = live \cup {g}
    /\ UNCHANGED view
    /\ UNCHANGED <<thrVars, dimVars, restVars>>

\* A contiguous that returns *this on both branches.
contiguous_AlwaysAlias(g, h, mf) ==
    /\ h \in live
    /\ defined(h)
    /\ g \notin live
    /\ SetHeap(retain_(Heap, impl_[h]))
    /\ impl_' = [impl_ EXCEPT ![g] = impl_[h]]
    /\ last' = [op |-> "contiguous", h |-> h, g |-> g, mf |-> mf,
                dispatched |-> ~is_contiguous(h, mf)]
    /\ live' = live \cup {g}
    /\ UNCHANGED view
    /\ UNCHANGED <<thrVars, dimVars, restVars>>

\* Tensor contiguous(MemoryFormat memory_format) const, its result in slot g.
contiguous(g, h, mf) ==
    /\ h \in live
    /\ defined(h)
    /\ g \notin live
    /\ IF is_contiguous(h, mf)
       THEN /\ SetHeap(retain_(Heap, impl_[h]))
            /\ impl_' = [impl_ EXCEPT ![g] = impl_[h]]
            /\ last' = [op |-> "contiguous", h |-> h, g |-> g, mf |-> mf,
                        dispatched |-> FALSE]
       ELSE /\ CanAlloc
            /\ \E others \in SUBSET MemoryFormat :
                 SetHeap(__dispatch_contiguous(Heap, FreshObj, mf, others))
            /\ impl_' = [impl_ EXCEPT ![g] = FreshObj]
            /\ last' = [op |-> "contiguous", h |-> h, g |-> g, mf |-> mf,
                        dispatched |-> TRUE]
    /\ live' = live \cup {g}
    /\ UNCHANGED view
    /\ UNCHANGED <<thrVars, dimVars, restVars>>

\* Tensor(unsafe_borrow_t, const Tensor& rhs): reclaim(rhs.impl_.get()), a
\* second pointer to the TensorImpl with no reference taken.
unsafe_borrow(h) == impl_[h]

\* unsafeReleaseTensorImpl(): impl_.release() hands the pointer out and leaves
\* impl_ null, without touching the count. The value is what impl_ holds after.
unsafeReleaseTensorImpl(p) == Null

\* MaybeOwnedTraits<Tensor>::createBorrow, as MaybeOwned<Tensor>::borrowed(h)
\* uses it to fill view v.
createBorrow(v, h) ==
    /\ h \in live
    /\ view[v].tag = "none"
    /\ view' = [view EXCEPT ![v] = [tag |-> "borrowed", impl |-> unsafe_borrow(h)]]
    /\ last' = [op |-> "createBorrow", h |-> h, v |-> v]
    /\ UNCHANGED <<live, impl_, ostate, refcount_, nfree, contig>>
    /\ UNCHANGED <<thrVars, dimVars, restVars>>

\* A destroyBorrow that leaves the pointer in place, so that the destructor of
\* the borrowed Tensor gives up a reference that was never taken.
destroyBorrow_Decrements(v) ==
    /\ view[v].tag = "borrowed"
    /\ SetHeap(reset_(Heap, view[v].impl))
    /\ view' = [view EXCEPT ![v] = NoView]
    /\ last' = [op |-> "destroyBorrow", v |-> v, old |-> view[v].impl]
    /\ UNCHANGED <<live, impl_>>
    /\ UNCHANGED <<thrVars, dimVars, restVars>>

\* MaybeOwnedTraits<Tensor>::destroyBorrow, then the destructor of the
\* borrowed Tensor, as the destruction of a borrowed MaybeOwned runs them.
destroyBorrow(v) ==
    /\ view[v].tag = "borrowed"
    /\ SetHeap(reset_(Heap, unsafeReleaseTensorImpl(view[v].impl)))
    /\ view' = [view EXCEPT ![v] = NoView]
    /\ last' = [op |-> "destroyBorrow", v |-> v, old |-> view[v].impl]
    /\ UNCHANGED <<live, impl_>>
    /\ UNCHANGED <<thrVars, dimVars, restVars>>

\* The destruction of an owned MaybeOwned: the destructor of the Tensor it holds.
DestroyOwned(v) ==
    /\ view[v].tag = "owned"
    /\ SetHeap(reset_(Heap, view[v].impl))
    /\ view' = [view EXCEPT ![v] = NoView]
    /\ last' = [op |-> "DestroyOwned", v |-> v, old |-> view[v].impl]
    /\ UNCHANGED <<live, impl_>>
    /\ UNCHANGED <<thrVars, dimVars, restVars>>

\* An expect_contiguous that returns an owned copy of *this when it is
\* contiguous, as contiguous does.
expect_contiguous_Copies(v, h, mf) ==
    /\ h \in live
    /\ defined(h)
    /\ view[v].tag = "none"
    /\ IF is_contiguous(h, mf)
       THEN /\ SetHeap(retain_(Heap, impl_[h]))
            /\ view' = [view EXCEPT ![v] = [tag |-> "owned", impl |-> impl_[h]]]
            /\ last' = [op |-> "expect_contiguous", h |-> h, v |-> v, mf |-> mf,
                        dispatched |-> FALSE]
       ELSE /\ CanAlloc
            /\ \E others \in SUBSET MemoryFormat :
                 SetHeap(__dispatch_contiguous(Heap, FreshObj, mf, others))
            /\ view' = [view EXCEPT ![v] = [tag |-> "owned", impl |-> FreshObj]]
            /\ last' = [op |-> "expect_contiguous", h |-> h, v |-> v, mf |-> mf,
                        dispatched |-> TRUE]
    /\ UNCHANGED <<live, impl_>>
    /\ UNCHANGED <<thrVars, dimVars, restVars>>

\* An expect_contiguous that borrows *this on both branches.
expect_contiguous_AlwaysBorrows(v, h, mf) ==
    /\ h \in live
    /\ defined(h)
    /\ view[v].tag = "none"
    /\ view' = [view EXCEPT ![v] = [tag |-> "borrowed", impl |-> unsafe_borrow(h)]]
    /\ last' = [op |-> "expect_contiguous", h |-> h, v |-> v, mf |-> mf,
                dispatched |-> ~is_contiguous(h, mf)]
    /\ UNCHANGED <<live, impl_, ostate, refcount_, nfree, contig>>
    /\ UNCHANGED <<thrVars, dimVars, restVars>>

\* c10::MaybeOwned<Tensor> Tensor::expect_contiguous(memory_format) const &,
\* its result in view v.
expect_contiguous(v, h, mf) ==
    /\ h \in live
    /\ defined(h)
    /\ view[v].tag = "none"
    /\ IF is_contiguous(h, mf)
       THEN /\ view' = [view EXCEPT ![v] = [tag |-> "borrowed", impl |-> unsafe_borrow(h)]]
            /\ last' = [op |-> "expect_contiguous", h |-> h, v |-> v, mf |-> mf,
                        dispatched |-> FALSE]
            /\ UNCHANGED <<ostate, refcount_, nfree, contig>>
       ELSE /\ CanAlloc
            /\ \E others \in SUBSET MemoryFormat :
                 SetHeap(__dispatch_contiguous(Heap, FreshObj, mf, others))
            /\ view' = [view EXCEPT ![v] = [tag |-> "owned", impl |-> FreshObj]]
            /\ last' = [op |-> "expect_contiguous", h |-> h, v |-> v, mf |-> mf,
                        dispatched |-> TRUE]
    /\ UNCHANGED <<live, impl_>>
    /\ UNCHANGED <<thrVars, dimVars, restVars>>

\* Construction, copy, move, reset and destruction of Tensors.
HandleNext ==
    \/ \E h \in Handle : DefaultConstruct(h)
    \/ \E h \in Handle, fmts \in SUBSET MemoryFormat : make_tensor(h, fmts)
    \/ \E h, g \in Handle : CopyConstruct(h, g)
    \/ \E h, g \in Handle : MoveConstruct(h, g)
    \/ \E h, g \in Handle : CopyAssign(h, g)
    \/ \E h, g \in Handle : MoveAssign(h, g)
    \/ \E h \in Handle : reset(h)
    \/ \E h \in Handle : Destroy(h)

\* Defined Tensors that are made and destroyed, their contiguous forms and the
\* MaybeOwned<Tensor> objects that borrow from them.
ViewNext ==
    \/ \E h \in Handle, fmts \in SUBSET MemoryFormat : make_tensor(h, fmts)
    \/ \E h \in Handle : Destroy(h)
    \/ \E h, g \in Handle, mf \in MemoryFormat : contiguous(g, h, mf)
    \/ \E h \in Handle, v \in View : createBorrow(v, h)
    \/ \E v \in View : destroyBorrow(v)
    \/ \E v \in View : DestroyOwned(v)
    \/ \E h \in Handle, v \in View, mf \in MemoryFormat : expect_contiguous(v, h, mf)

\* ------------------------------------------------- concurrent threads
\* Each thread starts with one Tensor of the shared TensorImpl.
ThrInit ==
    /\ trc = NumThreads
    /\ tfreed = 0
    /\ own = [t \in Thread |-> 1]
    /\ pc = [t \in Thread |-> "idle"]
    /\ seen = [t \in Thread |-> 0]

ThrOff ==
    /\ trc = 0
    /\ tfreed = 0
    /\ own = [t \in Thread |-> 0]
    /\ pc = [t \in Thread |-> "idle"]
    /\ seen = [t \in Thread |-> 0]

\* A copy whose increment is a plain read, then a write of the value read
\* plus one.
Copy_Racy(t) ==
    \/ /\ pc[t] = "idle"
       /\ own[t] >= 1
       /\ own[t] < MaxOwn
       /\ pc' = [pc EXCEPT ![t] = "retain"]
       /\ seen' = [seen EXCEPT ![t] = trc]
       /\ UNCHANGED <<trc, tfreed, own>>
       /\ UNCHANGED <<ownVars, dimVars, restVars>>
    \/ /\ pc[t] = "retain"
       /\ trc' = seen[t] + 1
       /\ own' = [own EXCEPT ![t] = @ + 1]
       /\ pc' = [pc EXCEPT ![t] = "idle"]
       /\ UNCHANGED <<tfreed, seen>>
       /\ UNCHANGED <<ownVars, dimVars, restVars>>

\* Tensor b = a in thread t, a being one of its own Tensors: the new Tensor
\* takes a's pointer, then the strong count is incremented atomically.
Copy(t) ==
    \/ /\ pc[t] = "idle"
       /\ own[t] >= 1
       /\ own[t] < MaxOwn
       /\ pc' = [pc EXCEPT ![t] = "retain"]
       /\ UNCHANGED <<trc, tfreed, own, seen>>
       /\ UNCHANGED <<ownVars, dimVars, restVars>>
    \/ /\ pc[t] = "retain"
       /\ trc' = trc + 1
       /\ own' = [own EXCEPT ![t] = @ + 1]
       /\ pc' = [pc EXCEPT ![t] = "idle"]
       /\ UNCHANGED <<tfreed, seen>>
       /\ UNCHANGED <<ownVars, dimVars, restVars>>

\* The destruction of one of thread t's Tensors: the strong count is
\* decremented atomically, and the thread that brought it to zero deletes the
\* TensorImpl.
ThreadDestroy(t) ==
    \/ /\ pc[t] = "idle"
       /\ own[t] >= 1
       /\ trc' = trc - 1
       /\ own' = [own EXCEPT ![t] = @ - 1]
       /\ pc' = [pc EXCEPT ![t] = IF trc - 1 = 0 THEN "delete" ELSE "idle"]
       /\ UNCHANGED <<tfreed, seen>>
       /\ UNCHANGED <<ownVars, dimVars, restVars>>
    \/ /\ pc[t] = "delete"
       /\ tfreed' = tfreed + 1
       /\ pc' = [pc EXCEPT ![t] = "idle"]
       /\ UNCHANGED <<trc, own, seen>>
       /\ UNCHANGED <<ownVars, dimVars, restVars>>

ThrNext ==
    \/ \E t \in Thread : Copy(t)
    \/ \E t \in Thread : ThreadDestroy(t)

\* ------------------------------------------------------ size and stride
Dims == 0..MaxRank
SeqsOf(S, n) == [1..n -> S]

DimInit ==
    /\ \E n \in Dims :
         /\ sizes_ \in SeqsOf(1..MaxSize, n)
         /\ strides_ \in SeqsOf(0..MaxStride, n)
    /\ query = [fn |-> "none"]

DimOff ==
    /\ sizes_ = <<>>
    /\ strides_ = <<>>
    /\ query = [fn |-> "none"]

IndexError == [ok |-> FALSE, err |-> "IndexOutOfRange"]
Value(n) == [ok |-> TRUE, val |-> n]

\* int64_t dim() const
dim == Len(sizes_)

\* c10::maybe_wrap_dim(dim, dim_post_expr, /*wrap_scalar=*/false): a negative
\* index counts from the end; an index that is then outside
\* [0, dim_post_expr) is an IndexOutOfRange error.
maybe_wrap_dim(d, dim_post_expr) ==
    LET effective == IF d < 0 THEN d + dim_post_expr ELSE d
    IN  IF effective < 0 \/ effective >= dim_post_expr
        THEN IndexError
        ELSE Value(effective)

\* A size that checks the index against the rank without wrapping it.
size_NoWrap(d) ==
    IF d < 0 \/ d >= dim THEN IndexError ELSE Value(sizes_[d + 1])

\* int64_t size(int64_t dim) const
size(d) ==
    LET w == maybe_wrap_dim(d, dim)
    IN  IF w.ok THEN Value(sizes_[w.val + 1]) ELSE w

\* int64_t stride(int64_t dim) const
stride(d) ==
    LET w == maybe_wrap_dim(d, dim)
    IN  IF w.ok THEN Value(strides_[w.val + 1]) ELSE w

\* The indices the queries are made with: every valid one and two beyond on
\* each side.
Indices == (0 - MaxRank - 2)..(MaxRank + 1)

QuerySize(d) ==
    /\ query' = [fn |-> "size", dim |-> d, res |-> size(d)]
    /\ UNCHANGED <<sizes_, strides_>>
    /\ UNCHANGED <<ownVars, thrVars, restVars>>

QueryStride(d) ==
    /\ query' = [fn |-> "stride", dim |-> d, res |-> stride(d)]
    /\ UNCHANGED <<sizes_, strides_>>
    /\ UNCHANGED <<ownVars, thrVars, restVars>>

DimNext ==
    \/ \E d \in Indices : QuerySize(d)
    \/ \E d \in Indices : QueryStride(d)

\* ------------------------------------- Tensors from an owned reference
WrapOff ==
    /\ tensor_impl = Null
    /\ broken = {}
    /\ enforced = {}

NoError == "none"
InvariantViolation == "InvariantViolation"

\* The caller makes a TensorImpl and holds it by intrusive_ptr; bad tells
\* whether it fails the invariants that enforce_invariants checks.
NewImpl(fmts, bad) ==
    /\ tensor_impl = Null
    /\ CanAlloc
    /\ LET o == FreshObj IN
        /\ SetHeap(make_intrusive(Heap, o, fmts))
        /\ tensor_impl' = o
        /\ broken' = IF bad THEN broken \cup {o} ELSE broken
        /\ last' = [op |-> "NewImpl", obj |-> o]
    /\ UNCHANGED <<live, impl_, view, enforced>>
    /\ UNCHANGED <<thrVars, dimVars, restButWrap>>

\* A constructor that wraps whatever it is given.
Tensor_NoNullCheck(h) ==
    /\ h \notin live
    /\ live' = live \cup {h}
    /\ impl_' = [impl_ EXCEPT ![h] = tensor_impl]
    /\ tensor_impl' = Null
    /\ last' = [op |-> "Tensor", h |-> h, arg |-> tensor_impl, err |-> NoError]
    /\ UNCHANGED <<ostate, refcount_, nfree, contig, view, broken, enforced>>
    /\ UNCHANGED <<thrVars, dimVars, restButWrap>>

\* explicit Tensor(c10::intrusive_ptr<TensorImpl, UndefinedTensorImpl> tensor_impl)
\* : impl_(std::move(tensor_impl)), which throws when impl_.get() == nullptr.
\* The reference moves from the caller's pointer into impl_; a constructor that
\* throws leaves no Tensor.
Tensor(h) ==
    /\ h \notin live
    /\ IF tensor_impl = Null
       THEN /\ last' = [op |-> "Tensor", h |-> h, arg |-> tensor_impl,
                        err |-> InvariantViolation]
            /\ UNCHANGED <<live, impl_, tensor_impl>>
       ELSE /\ live' = live \cup {h}
            /\ impl_' = [impl_ EXCEPT ![h] = tensor_impl]
            /\ tensor_impl' = Null
            /\ last' = [op |-> "Tensor", h |-> h, arg |-> tensor_impl, err |-> NoError]
    /\ UNCHANGED <<ostate, refcount_, nfree, contig, view, broken, enforced>>
    /\ UNCHANGED <<thrVars, dimVars, restButWrap>>

\* void enforce_invariants(): whether the check passes on TensorImpl p.
enforce_invariants(p) == p \notin broken

\* A wrap_tensor_impl that returns r without checking it.
wrap_tensor_impl_NoEnforce(h) ==
    /\ h \notin live
    /\ IF tensor_impl = Null
       THEN /\ last' = [op |-> "wrap_tensor_impl", h |-> h, arg |-> tensor_impl,
                        err |-> InvariantViolation]
            /\ UNCHANGED <<live, impl_, tensor_impl>>
       ELSE /\ live' = live \cup {h}
            /\ impl_' = [impl_ EXCEPT ![h] = tensor_impl]
            /\ tensor_impl' = Null
            /\ last' = [op |-> "wrap_tensor_impl", h |-> h, arg |-> tensor_impl,
                        err |-> NoError]
    /\ UNCHANGED <<ostate, refcount_, nfree, contig, view, broken, enforced>>
    /\ UNCHANGED <<thrVars, dimVars, restButWrap>>

\* static Tensor wrap_tensor_impl(tensor_impl): Tensor r(std::move(tensor_impl));
\* r.enforce_invariants(); return r. When the constructor throws there is no r;
\* when enforce_invariants throws, r is destroyed and gives up its reference.
wrap_tensor_impl(h) ==
    /\ h \notin live
    /\ IF tensor_impl = Null
       THEN /\ last' = [op |-> "wrap_tensor_impl", h |-> h, arg |-> tensor_impl,
                        err |-> InvariantViolation]
            /\ UNCHANGED <<live, impl_, tensor_impl, enforced>>
            /\ UNCHANGED <<ostate, refcount_, nfree, contig>>
       ELSE IF enforce_invariants(tensor_impl)
       THEN /\ live' = live \cup {h}
            /\ impl_' = [impl_ EXCEPT ![h] = tensor_impl]
            /\ tensor_impl' = Null
            /\ enforced' = enforced \cup {tensor_impl}
            /\ last' = [op |-> "wrap_tensor_impl", h |-> h, arg |-> tensor_impl,
                        err |-> NoError]
            /\ UNCHANGED <<ostate, refcount_, nfree, contig>>
       ELSE /\ SetHeap(reset_(Heap, tensor_impl))
            /\ tensor_impl' = Null
            /\ last' = [op |-> "wrap_tensor_impl", h |-> h, arg |-> tensor_impl,
                        err |-> InvariantViolation]
            /\ UNCHANGED <<live, impl_, enforced>>
    /\ UNCHANGED <<view, broken>>
    /\ UNCHANGED <<thrVars, dimVars, restButWrap>>

\* The construction paths that take an owned reference, and the destruction
\* of the Tensors they make.
WrapNext ==
    \/ \E fmts \in SUBSET MemoryFormat, bad \in BOOLEAN : NewImpl(fmts, bad)
    \/ \E h \in Handle : Tensor(h)
    \/ \E h \in Handle : wrap_tensor_impl(h)
    \/ \E h \in Handle, fmts \in SUBSET MemoryFormat : make_tensor(h, fmts)
    \/ \E h \in Handle : Destroy(h)

\* ------------------------------------- queries on an undefined Tensor
UndefinedState == [ok |-> FALSE, err |-> "UndefinedState"]

\* impl_->fn(): a method of the TensorImpl that impl_ points to. The
\* UndefinedTensorImpl of an undefined Tensor has nothing to answer and raises;
\* another TensorImpl answers with its field, written <<fn, p>>.
impl_call(p, fn) ==
    IF p = Null THEN UndefinedState ELSE Value(<<fn, p>>)

\* int64_t ndimension() const { return dim(); }, dim() being impl_->dim()
ndimension(h) == impl_call(impl_[h], "dim")

\* IntArrayRef sizes() const { return impl_->sizes(); }
sizes(h) == impl_call(impl_[h], "sizes")

\* int64_t size(int64_t dim) const, on any Tensor: this->dim() is evaluated
\* first, for maybe_wrap_dim, and raises before sizes() is reached.
Tensor_size(h) ==
    LET r == ndimension(h)
    IN  IF r.ok THEN impl_call(impl_[h], "size") ELSE r

\* int64_t numel() const { return impl_->numel(); }
numel(h) == impl_call(impl_[h], "numel")

\* bool is_cuda() const { return impl_->is_cuda(); }
is_cuda(h) == impl_call(impl_[h], "is_cuda")

\* bool is_contiguous(memory_format) const { return impl_->is_contiguous(memory_format); }
\* on any Tensor.
Tensor_is_contiguous(h, mf) ==
    IF impl_[h] = Null THEN impl_call(impl_[h], "is_contiguous")
    ELSE Value(is_contiguous(h, mf))

\* A has_storage that asks the TensorImpl without testing defined() first.
has_storage_Unguarded(h) == impl_call(impl_[h], "has_storage")

\* bool has_storage() const { return defined() && impl_->has_storage(); }
has_storage(h) ==
    IF defined(h) THEN impl_call(impl_[h], "has_storage") ELSE Value(FALSE)

\* The queries made, and what each returns or raises.
QueryFn == {"defined", "use_count", "has_storage", "dim", "sizes", "size",
            "numel", "is_cuda", "is_contiguous"}

Answer(h, fn) ==
    CASE fn = "defined" -> Value(defined(h))
      [] fn = "use_count" -> Value(use_count(h))
      [] fn = "has_storage" -> has_storage(h)
      [] fn = "dim" -> ndimension(h)
      [] fn = "sizes" -> sizes(h)
      [] fn = "size" -> Tensor_size(h)
      [] fn = "numel" -> numel(h)
      [] fn = "is_cuda" -> is_cuda(h)
      [] fn = "is_contiguous" -> Tensor_is_contiguous(h, "Contiguous")

\* One query on a constructed Tensor; undef tells whether it was undefined.
Ask(h, fn) ==
    /\ h \in live
    /\ asked' = [fn |-> fn, h |-> h, undef |-> ~defined(h), res |-> Answer(h, fn)]
    /\ UNCHANGED ownVars
    /\ UNCHANGED <<thrVars, dimVars, restButAsk>>

\* Tensors that are default-constructed, made (contiguous or not) and reset,
\* and the queries made on them.
AskNext ==
    \/ \E h \in Handle : DefaultConstruct(h)
    \/ \E h \in Handle, fmts \in {{}, {"Contiguous"}} : make_tensor(h, fmts)
    \/ \E h \in Handle : reset(h)
    \/ \E h \in Handle, fn \in QueryFn : Ask(h, fn)

\* ------------------------------------------------------ backward hooks
MaxHooks == 3
MaxGrad == 2

\* Gradients: an undefined Tensor, or a Tensor with a value.
UndefGrad == [defined |-> FALSE]
Grad(n) == [defined |-> TRUE, val |-> n]

\* The hooks a caller registers: two that return a new gradient (and do not
\* commute) and one that returns void.
HookFn == {"twice", "plus1", "peek"}
ReturnsVoid(hk) == hk = "peek"

\* hook(grad), for a hook that returns a Tensor.
Apply(hk, g) ==
    IF hk = "twice" THEN Grad(2 * g.val) ELSE Grad(g.val + 1)

HookOff ==
    /\ hooks_ = <<>>
    /\ next_pos = 0
    /\ issued = {}
    /\ hlast = [op |-> "init"]

\* The std::function<Tensor(const Tensor&)> that is stored for a hook:
\* wrapped tells that it is the lambda that calls fn(grad) and returns Tensor().
\* What it returns when the engine calls it with grad g:
CallStored(e, g) ==
    IF e.wrapped THEN UndefGrad ELSE Apply(e.fn, g)

\* A _register_hook that returns the index of the hook among the hooks that
\* are registered now.
_register_hook_ReusesIndex(hk, wrapped) ==
    [hooks |-> Append(hooks_, [pos |-> Len(hooks_), fn |-> hk, wrapped |-> wrapped]),
     next |-> next_pos + 1,
     idx |-> Len(hooks_)]

\* unsigned _register_hook(std::function<Tensor(const Tensor&)> hook) const:
\* the hook goes to the end of the list under the next position, which is
\* returned.
_register_hook(hk, wrapped) ==
    [hooks |-> Append(hooks_, [pos |-> next_pos, fn |-> hk, wrapped |-> wrapped]),
     next |-> next_pos + 1,
     idx |-> next_pos]

\* A register_hook that wraps every hook as it wraps a hook that returns void.
register_hook_DropsReturn(hk) ==
    /\ next_pos < MaxHooks
    /\ LET r == _register_hook(hk, TRUE) IN
        /\ hooks_' = r.hooks
        /\ next_pos' = r.next
        /\ issued' = issued \cup {r.idx}
        /\ hlast' = [op |-> "register_hook", pos |-> r.idx, fn |-> hk]
    /\ UNCHANGED <<ownVars, thrVars, dimVars, restButHook>>

\* A register_hook that passes every hook on as it is, so that what a hook
\* that returns void leaves behind is taken for a gradient.
register_hook_NoWrap(hk) ==
    /\ next_pos < MaxHooks
    /\ LET r == _register_hook(hk, FALSE) IN
        /\ hooks_' = r.hooks
        /\ next_pos' = r.next
        /\ issued' = issued \cup {r.idx}
        /\ hlast' = [op |-> "register_hook", pos |-> r.idx, fn |-> hk]
    /\ UNCHANGED <<ownVars, thrVars, dimVars, restButHook>>

\* template <typename T> register_hook(T&& hook) const, both overloads: a hook
\* that returns void is wrapped in a lambda that returns Tensor(), a hook that
\* returns a Tensor is passed on as it is.
register_hook(hk) ==
    /\ next_pos < MaxHooks
    /\ LET r == _register_hook(hk, ReturnsVoid(hk)) IN
        /\ hooks_' = r.hooks
        /\ next_pos' = r.next
        /\ issued' = issued \cup {r.idx}
        /\ hlast' = [op |-> "register_hook", pos |-> r.idx, fn |-> hk]
    /\ UNCHANGED <<ownVars, thrVars, dimVars, restButHook>>

Positions(hs) == {hs[i].pos : i \in 1..Len(hs)}
Without(hs, pos) == SelectSeq(hs, LAMBDA e : e.pos # pos)

\* A remove_hook that raises when no hook is registered at pos.
remove_hook_Strict(pos) ==
    /\ hooks_' = Without(hooks_, pos)
    /\ hlast' = [op |-> "remove_hook", pos |-> pos, found |-> pos \in Positions(hooks_),
                 err |-> IF pos \in Positions(hooks_) THEN NoError ELSE "IndexError"]
    /\ UNCHANGED <<next_pos, issued>>
    /\ UNCHANGED <<ownVars, thrVars, dimVars, restButHook>>

\* void remove_hook(unsigned pos) const: the hook registered at pos is taken
\* out; nothing happens when there is none.
remove_hook(pos) ==
    /\ hooks_' = Without(hooks_, pos)
    /\ hlast' = [op |-> "remove_hook", pos |-> pos, found |-> pos \in Positions(hooks_),
                 err |-> NoError]
    /\ UNCHANGED <<next_pos, issued>>
    /\ UNCHANGED <<ownVars, thrVars, dimVars, restButHook>>

\* A rebuild of the graph clears the hooks of the Tensor.
ClearHooks ==
    /\ hooks_ # <<>>
    /\ hooks_' = <<>>
    /\ hlast' = [op |-> "clear"]
    /\ UNCHANGED <<next_pos, issued>>
    /\ UNCHANGED <<ownVars, thrVars, dimVars, restButHook>>

\* The engine has a gradient g for the Tensor and calls the hooks from the
\* i-th on, in order; a hook that returns a defined Tensor replaces the
\* gradient for the hooks after it. The calls made and the final gradient.
RECURSIVE RunHooks(_, _, _)
RunHooks(hs, i, g) ==
    IF i > Len(hs) THEN [calls |-> <<>>, out |-> g]
    ELSE LET r == CallStored(hs[i], g)
             rest == RunHooks(hs, i + 1, IF r.defined THEN r ELSE g)
         IN  [calls |-> <<[pos |-> hs[i].pos, arg |-> g]>> \o rest.calls,
              out |-> rest.out]

\* A gradient with respect to the Tensor is computed.
ComputeGrad(n) ==
    /\ LET r == RunHooks(hooks_, 1, Grad(n)) IN
        hlast' = [op |-> "compute", g |-> Grad(n), calls |-> r.calls, out |-> r.out]
    /\ UNCHANGED <<hooks_, next_pos, issued>>
    /\ UNCHANGED <<ownVars, thrVars, dimVars, restButHook>>

HookNext ==
    \/ \E hk \in HookFn : register_hook(hk)
    \/ \E pos \in 0..MaxHooks : remove_hook(pos)
    \/ ClearHooks
    \/ \E n \in 1..MaxGrad : ComputeGrad(n)

\* ----------------------------------------------------- version counter
MaxVersion == 2

VerOff == version_ = [o \in Obj |-> 0]

\* int64_t _version() const, on a defined Tensor.
_version(h) == version_[impl_[h]]

\* An in-place operator that changes the TensorImpl and not its version.
operator_add_assign_NoBump(h) ==
    /\ h \in live
    /\ defined(h)
    /\ _version(h) < MaxVersion
    /\ last' = [op |-> "operator+=", h |-> h]
    /\ UNCHANGED version_
    /\ UNCHANGED <<live, impl_, ostate, refcount_, nfree, contig, view>>
    /\ UNCHANGED <<thrVars, dimVars, restButVer>>

\* Tensor& operator+=(const Tensor & other), as every in-place operation: the
\* TensorImpl that *this points to is changed in place, and its version
\* counter goes up by one with the change.
operator_add_assign(h) ==
    /\ h \in live
    /\ defined(h)
    /\ _version(h) < MaxVersion
    /\ version_' = [version_ EXCEPT ![impl_[h]] = @ + 1]
    /\ last' = [op |-> "operator+=", h |-> h]
    /\ UNCHANGED <<live, impl_, ostate, refcount_, nfree, contig, view>>
    /\ UNCHANGED <<thrVars, dimVars, restButVer>>

\* Tensors that are made, copied, moved, borrowed, asked for their rank and
\* changed in place.
VerNext ==
    \/ \E h \in Handle : make_tensor(h, {})
    \/ \E h, g \in Handle : CopyConstruct(h, g)
    \/ \E h, g \in Handle : MoveConstruct(h, g)
    \/ \E h \in Handle, v \in View : createBorrow(v, h)
    \/ \E v \in View : destroyBorrow(v)
    \/ \E h \in Handle : Ask(h, "dim")
    \/ \E h \in Handle : operator_add_assign(h)

\* ------------------------------------------------- grad_fn of a view
GfnOff ==
    /\ view_of = [o \in Obj |-> Null]
    /\ grad_fn_ = [o \in Obj |-> 0]
    /\ attr_version_ = [o \in Obj |-> 0]
    /\ nodes = 0
    /\ glast = [op |-> "none"]

\* bool is_view() const, on a TensorImpl, and the base that a view keeps.
is_view(o) == view_of[o] # Null
view_base(o) == view_of[o]

\* A view of Tensor g is made, in slot h: a new TensorImpl that keeps a Tensor
\* of its base (the base of g when g is a view itself) and a grad_fn derived at
\* the version the base has now.
MakeView(h, g) ==
    /\ h \notin live
    /\ g \in live
    /\ defined(g)
    /\ CanAlloc
    /\ LET o == FreshObj
           b == IF is_view(impl_[g]) THEN view_base(impl_[g]) ELSE impl_[g]
       IN  /\ SetHeap(retain_(make_intrusive(Heap, o, {}), b))
           /\ live' = live \cup {h}
           /\ impl_' = [impl_ EXCEPT ![h] = o]
           /\ view_of' = [view_of EXCEPT ![o] = b]
           /\ nodes' = nodes + 1
           /\ grad_fn_' = [grad_fn_ EXCEPT ![o] = nodes + 1]
           /\ attr_version_' = [attr_version_ EXCEPT ![o] = version_[b]]
           /\ last' = [op |-> "MakeView", h |-> h, g |-> g]
    /\ UNCHANGED <<view, glast>>
    /\ UNCHANGED <<thrVars, dimVars, restButGfn>>

\* A grad_fn that returns the Node it holds, whatever happened to the base.
grad_fn_Cached(h) ==
    /\ h \in live
    /\ defined(h)
    /\ glast' = [op |-> "grad_fn", h |-> h, obj |-> impl_[h],
                 before |-> grad_fn_[impl_[h]], res |-> grad_fn_[impl_[h]],
                 derived_at |-> attr_version_[impl_[h]]]
    /\ UNCHANGED <<view_of, grad_fn_, attr_version_, nodes>>
    /\ UNCHANGED <<ownVars, thrVars, dimVars, restButGfn>>

\* const std::shared_ptr<torch::autograd::Node>& grad_fn() const: "Gets the
\* up-to-date grad_fn. If the shared data or base was modified, we re-create
\* the grad_fn to express the up-to-date view relationship between this and
\* the base Variable."
grad_fn(h) ==
    /\ h \in live
    /\ defined(h)
    /\ LET o == impl_[h] IN
        IF is_view(o) /\ attr_version_[o] # version_[view_base(o)]
        THEN /\ nodes' = nodes + 1
             /\ grad_fn_' = [grad_fn_ EXCEPT ![o] = nodes + 1]
             /\ attr_version_' = [attr_version_ EXCEPT ![o] = version_[view_base(o)]]
             /\ glast' = [op |-> "grad_fn", h |-> h, obj |-> o,
                          before |-> grad_fn_[o], res |-> nodes + 1,
                          derived_at |-> version_[view_base(o)]]
        ELSE /\ glast' = [op |-> "grad_fn", h |-> h, obj |-> o,
                          before |-> grad_fn_[o], res |-> grad_fn_[o],
                          derived_at |-> attr_version_[o]]
             /\ UNCHANGED <<grad_fn_, attr_version_, nodes>>
    /\ UNCHANGED view_of
    /\ UNCHANGED <<ownVars, thrVars, dimVars, restButGfn>>

\* Tensors, views of them, in-place operations and grad_fn() queries.
GfnNext ==
    \/ \E h \in Handle : make_tensor(h, {})
    \/ \E h, g \in Handle : MakeView(h, g)
    \/ \E h \in Handle : operator_add_assign(h)
    \/ \E h \in Handle : grad_fn(h)

ViewHasNoBase == [ok |-> FALSE, err |-> "ViewHasNoBase"]

\* A _base that hands out whatever the TensorImpl holds as its base.
_base_NoCheck(h) ==
    /\ h \in live
    /\ defined(h)
    /\ glast' = [op |-> "_base", h |-> h, obj |-> impl_[h],
                 res |-> Value(view_base(impl_[h]))]
    /\ UNCHANGED <<view_of, grad_fn_, attr_version_, nodes>>
    /\ UNCHANGED <<ownVars, thrVars, dimVars, restButGfn>>

\* const Tensor& _base() const: "Returns the `Variable` that this `Variable`
\* is a view of. If this `Variable` is not a view, throw a
\* `std::runtime_error`." What is returned refers to the Tensor of the base
\* that the view keeps.
_base(h) ==
    /\ h \in live
    /\ defined(h)
    /\ glast' = [op |-> "_base", h |-> h, obj |-> impl_[h],
                 res |-> IF is_view(impl_[h])
                         THEN Value(view_base(impl_[h]))
                         ELSE ViewHasNoBase]
    /\ UNCHANGED <<view_of, grad_fn_, attr_version_, nodes>>
    /\ UNCHANGED <<ownVars, thrVars, dimVars, restButGfn>>

\* Tensors and views of them, changed in place; the Tensors of a base are
\* destroyed while its views are there, and every Tensor is asked for its base.
BaseNext ==
    \/ \E h \in Handle : make_tensor(h, {})
    \/ \E h, g \in Handle : MakeView(h, g)
    \/ \E h \in Handle : operator_add_assign(h)
    \/ \E h \in Handle : defined(h) /\ ~is_view(impl_[h]) /\ Destroy(h)
    \/ \E h \in Handle : _base(h)
\* Tensor h is undefined or points to a TensorImpl that is not a view.
NotAView(h) == h \in live /\ (defined(h) => ~is_view(impl_[h]))

\* Tensors and views of them (a view holds a reference to its base), and copy
\* and move assignments into the Tensors that are not views.
AssignNext ==
    \/ \E h \in Handle : DefaultConstruct(h)
    \/ \E h \in Handle : make_tensor(h, {})
    \/ \E h, g \in Handle : MakeView(h, g)
    \/ \E h, g \in Handle : NotAView(h) /\ CopyAssign(h, g)
    \/ \E h, g \in Handle : NotAView(h) /\ MoveAssign(h, g)
    \/ \E h \in Handle : NotAView(h) /\ Destroy(h)
\* ------------------------------------------------------------ grad
MaxAcc == 6

GradOff ==
    /\ grad_ = UndefGrad
    /\ dlast = [op |-> "init"]

\* const Tensor& grad() const { return impl_->grad(); }
grad == grad_

\* A mutable_grad that returns a copy of the gradient, so that assigning to
\* what it returns leaves the gradient of the Tensor as it was.
mutable_grad_ByValue(x) ==
    /\ dlast' = [op |-> "mutable_grad", x |-> x]
    /\ UNCHANGED grad_
    /\ UNCHANGED <<ownVars, thrVars, dimVars, restButGrad>>

\* Tensor& mutable_grad() const { return impl_->mutable_grad(); }, as it is
\* used: t.mutable_grad() = x sets the gradient to a completely new Tensor.
mutable_grad(x) ==
    /\ grad_' = x
    /\ dlast' = [op |-> "mutable_grad", x |-> x]
    /\ UNCHANGED <<ownVars, thrVars, dimVars, restButGrad>>

\* What the backward pass leaves in grad when it has computed gradient g for
\* the Tensor: g when grad was undefined, else the sum of grad and g.
Accumulate(slot, g) ==
    IF slot.defined THEN Grad(slot.val + g.val) ELSE g

\* A backward pass in which a gradient n flows to the Tensor: the hooks are
\* called, and what they leave is accumulated into grad.
_backward(n) ==
    /\ LET r == RunHooks(hooks_, 1, Grad(n)) IN
        /\ Accumulate(grad_, r.out).val <= MaxAcc
        /\ grad_' = Accumulate(grad_, r.out)
        /\ dlast' = [op |-> "backward", g |-> r.out]
    /\ UNCHANGED <<ownVars, thrVars, dimVars, restButGrad>>

\* A backward pass in which no gradient flows to the Tensor.
BackwardElsewhere ==
    /\ dlast' = [op |-> "backward", g |-> UndefGrad]
    /\ UNCHANGED grad_
    /\ UNCHANGED <<ownVars, thrVars, dimVars, restButGrad>>

\* grad() is read.
ReadGrad ==
    /\ dlast' = [op |-> "grad", res |-> grad]
    /\ UNCHANGED grad_
    /\ UNCHANGED <<ownVars, thrVars, dimVars, restButGrad>>

GradNext ==
    \/ \E hk \in HookFn : register_hook(hk)
    \/ \E n \in 1..MaxGrad : _backward(n)
    \/ BackwardElsewhere
    \/ \E x \in {UndefGrad} \cup {Grad(n) : n \in 1..MaxGrad} : mutable_grad(x)
    \/ ReadGrad

\* ------------------------------ in-place operations seen by other threads
\* All but the version counters and the variables of the in-place operations.
restButVerBump == <<wrapVars, askVars, hookVars, gfnVars, gradVars, moreButBump>>

Idle == [pc |-> "idle", obj |-> Null]

BumpOff ==
    /\ data_ = [o \in Obj |-> 0]
    /\ sync = [o \in Obj |-> 0]
    /\ mpc = [t \in Thread |-> Idle]
    /\ obs = [op |-> "none"]

\* Thread t starts an in-place operation on Tensor h. In-place operations are
\* not synchronized by the Tensor: the caller holds its own lock for the
\* TensorImpl from here until the operation has returned.
BeginInplace(t, h) ==
    /\ h \in live
    /\ defined(h)
    /\ mpc[t] = Idle
    /\ sync[impl_[h]] = 0
    /\ _version(h) < MaxVersion
    /\ sync' = [sync EXCEPT ![impl_[h]] = t]
    /\ mpc' = [mpc EXCEPT ![t] = [pc |-> "kernel", obj |-> impl_[h]]]
    /\ UNCHANGED <<data_, obs, version_>>
    /\ UNCHANGED <<ownVars, thrVars, dimVars, restButVerBump>>

\* A kernel after which the caller's lock is free, the version not yet bumped.
Kernel_Publishes(t) ==
    /\ mpc[t].pc = "kernel"
    /\ data_' = [data_ EXCEPT ![mpc[t].obj] = @ + 1]
    /\ sync' = [sync EXCEPT ![mpc[t].obj] = 0]
    /\ mpc' = [mpc EXCEPT ![t].pc = "bump"]
    /\ UNCHANGED <<obs, version_>>
    /\ UNCHANGED <<ownVars, thrVars, dimVars, restButVerBump>>

\* The kernel of the operation changes the data of the TensorImpl.
Kernel(t) ==
    /\ mpc[t].pc = "kernel"
    /\ data_' = [data_ EXCEPT ![mpc[t].obj] = @ + 1]
    /\ mpc' = [mpc EXCEPT ![t].pc = "bump"]
    /\ UNCHANGED <<sync, obs, version_>>
    /\ UNCHANGED <<ownVars, thrVars, dimVars, restButVerBump>>

\* The version counter of the changed TensorImpl goes up by one.
bump_version(t) ==
    /\ mpc[t].pc = "bump"
    /\ version_' = [version_ EXCEPT ![mpc[t].obj] = @ + 1]
    /\ mpc' = [mpc EXCEPT ![t].pc = "return"]
    /\ UNCHANGED <<data_, sync, obs>>
    /\ UNCHANGED <<ownVars, thrVars, dimVars, restButVerBump>>

\* The operation returns, and the caller gives up its lock: from here other
\* threads, and the autograd engine, see what the operation did.
EndInplace(t) ==
    /\ mpc[t].pc = "return"
    /\ sync' = [sync EXCEPT ![mpc[t].obj] = 0]
    /\ mpc' = [mpc EXCEPT ![t] = Idle]
    /\ UNCHANGED <<data_, obs, version_>>
    /\ UNCHANGED <<ownVars, thrVars, dimVars, restButVerBump>>

\* Thread t, under the caller's lock, reads the data of Tensor h and its
\* _version(), as the autograd engine does when it saves or unpacks a Tensor.
Observe(t, h) ==
    /\ h \in live
    /\ defined(h)
    /\ mpc[t] = Idle
    /\ sync[impl_[h]] = 0
    /\ obs' = [op |-> "observe", data |-> data_[impl_[h]], version |-> _version(h)]
    /\ UNCHANGED <<data_, sync, mpc, version_>>
    /\ UNCHANGED <<ownVars, thrVars, dimVars, restButVerBump>>

\* Threads that change Tensors in place and look at them.
BumpNext ==
    \/ \E h \in Handle : make_tensor(h, {})
    \/ \E t \in Thread, h \in Handle : BeginInplace(t, h)
    \/ \E t \in Thread : Kernel(t)
    \/ \E t \in Thread : bump_version(t)
    \/ \E t \in Thread : EndInplace(t)
    \/ \E t \in Thread, h \in Handle : Observe(t, h)

\* ------------------------------------- byte size and memory format
AttrOff ==
    /\ meta = [layout |-> "none"]
    /\ mres = [op |-> "none"]

MaxItem == 2

\* at::Layout
Layout == {"Strided", "Sparse", "SparseCsr", "Mkldnn"}

UnsupportedOperation == [ok |-> FALSE, err |-> "UnsupportedOperation"]

\* The product of the entries of s: the numel of sizes s.
RECURSIVE Prod(_)
Prod(s) == IF s = <<>> THEN 1 ELSE Head(s) * Prod(Tail(s))

\* The strides of a contiguous Tensor of sizes sz.
ContiguousStrides(sz) ==
    [i \in 1..Len(sz) |-> Prod([j \in 1..(Len(sz) - i) |-> IF sz[i + j] = 0 THEN 1 ELSE sz[i + j]])]

\* Layout layout() const noexcept { return impl_->layout(); }
layout == meta.layout

\* bool is_sparse() const, bool is_mkldnn() const: impl_->is_sparse() and
\* impl_->is_mkldnn(), which go with the layout of the TensorImpl.
is_sparse == meta.layout = "Sparse"
is_mkldnn == meta.layout = "Mkldnn"

\* impl_->numel() and impl_->itemsize()
impl_numel == Prod(meta.sizes)
impl_itemsize == meta.itemsize

\* An nbytes that answers for every layout.
nbytes_NoLayoutCheck == Value(impl_numel * impl_itemsize)

\* size_t nbytes() const: TORCH_CHECK(layout() != at::kSparse, ...), then
\* impl_->numel() * impl_->itemsize().
nbytes ==
    IF layout # "Sparse"
    THEN Value(impl_numel * impl_itemsize)
    ELSE UnsupportedOperation

\* nbytes() is called on the Tensor.
AskBytes ==
    /\ mres' = [op |-> "nbytes", res |-> nbytes]
    /\ UNCHANGED meta
    /\ UNCHANGED <<ownVars, thrVars, dimVars, restOld, moreButAttr>>

\* itemsize() and numel() are called on the Tensor.
AskItemsize ==
    /\ mres' = [op |-> "itemsize", res |-> Value(impl_itemsize)]
    /\ UNCHANGED meta
    /\ UNCHANGED <<ownVars, thrVars, dimVars, restOld, moreButAttr>>

AskNumel ==
    /\ mres' = [op |-> "numel", res |-> Value(impl_numel)]
    /\ UNCHANGED meta
    /\ UNCHANGED <<ownVars, thrVars, dimVars, restOld, moreButAttr>>

\* A defined Tensor of any layout, of rank up to MaxRank, contiguous.
BytesInit ==
    /\ \E l \in Layout, n \in Dims, isz \in 1..MaxItem :
         \E sz \in SeqsOf(0..MaxSize, n) :
            meta = [layout |-> l, itemsize |-> isz, sizes |-> sz,
                    strides |-> ContiguousStrides(sz)]
    /\ mres = [op |-> "none"]

BytesNext ==
    \/ AskBytes
    \/ AskItemsize
    \/ AskNumel

\* c10::get_channels_last_strides_2d(sizes) and get_channels_last_strides_3d:
\* the strides of a Tensor of sizes N, C, H, W (N, C, D, H, W) whose memory
\* is laid out with the channels last.
get_channels_last_strides_2d(sz) ==
    LET s4 == sz[2]
        s3 == s4 * sz[4]
        s1 == s3 * sz[3]
    IN  <<s1, 1, s3, s4>>

get_channels_last_strides_3d(sz) ==
    LET s5 == sz[2]
        s4 == s5 * sz[5]
        s3 == s4 * sz[4]
        s1 == s3 * sz[3]
    IN  <<s1, 1, s3, s4, s5>>

\* The loop of c10::is_channels_last_strides_2d_s4 (_3d_s5) over the
\* dimensions in order, from the innermost of the layout outwards: each stride
\* is at least the extent of the dimensions before it, a dimension of size 1
\* adding nothing to that extent.
RECURSIVE StridesInOrder(_, _, _, _, _)
StridesInOrder(sz, st, order, i, min) ==
    IF i > Len(order) THEN TRUE
    ELSE LET d == order[i] IN
         IF sz[d] = 0 THEN FALSE
         ELSE IF st[d] < min THEN FALSE
         ELSE IF d = 1 /\ min = st[2] THEN FALSE
         ELSE StridesInOrder(sz, st, order, i + 1,
                             IF sz[d] > 1 THEN st[d] * sz[d] ELSE st[d])

\* impl_->is_strides_like_channels_last() and
\* impl_->is_strides_like_channels_last_3d(), which the TensorImpl computes
\* from its sizes and strides.
is_strides_like_channels_last ==
    /\ Len(meta.sizes) = 4
    /\ meta.strides[2] # 0
    /\ StridesInOrder(meta.sizes, meta.strides, <<2, 4, 3, 1>>, 1, 0)

is_strides_like_channels_last_3d ==
    /\ Len(meta.sizes) = 5
    /\ meta.strides[2] # 0
    /\ StridesInOrder(meta.sizes, meta.strides, <<2, 5, 4, 3, 1>>, 1, 0)

\* A suggest_memory_format that never compares the strides.
suggest_memory_format_IgnoresExact(channels_last_strides_exact_match) ==
    IF ~is_mkldnn /\ ~is_sparse
    THEN IF is_strides_like_channels_last THEN "ChannelsLast"
         ELSE IF is_strides_like_channels_last_3d THEN "ChannelsLast3d"
         ELSE "Contiguous"
    ELSE "Contiguous"

\* at::MemoryFormat suggest_memory_format(
\*     bool channels_last_strides_exact_match = false) const
suggest_memory_format(channels_last_strides_exact_match) ==
    IF ~is_mkldnn /\ ~is_sparse
    THEN IF is_strides_like_channels_last
         THEN IF \/ ~channels_last_strides_exact_match
                 \/ get_channels_last_strides_2d(meta.sizes) = meta.strides
              THEN "ChannelsLast"
              ELSE "Contiguous"
         ELSE IF is_strides_like_channels_last_3d
         THEN IF \/ ~channels_last_strides_exact_match
                 \/ get_channels_last_strides_3d(meta.sizes) = meta.strides
              THEN "ChannelsLast3d"
              ELSE "Contiguous"
         ELSE "Contiguous"
    ELSE "Contiguous"

\* suggest_memory_format(exact) is called on the Tensor.
AskFormat(exact) ==
    /\ mres' = [op |-> "suggest_memory_format", exact |-> exact,
                res |-> suggest_memory_format(exact)]
    /\ UNCHANGED meta
    /\ UNCHANGED <<ownVars, thrVars, dimVars, restOld, moreButAttr>>

\* The strides a Tensor of sizes sz is given: those of a contiguous Tensor,
\* and those of a channels-last Tensor with up to MaxStride elements of
\* padding in one dimension.
StridesFor(sz) ==
    LET cl == IF Len(sz) = 4 THEN get_channels_last_strides_2d(sz)
              ELSE get_channels_last_strides_3d(sz)
    IN  {ContiguousStrides(sz)} \cup
        {[cl EXCEPT ![i] = @ + v] : i \in 1..Len(sz), v \in 0..MaxStride}

\* A defined Tensor of any layout, of rank 4 or 5.
FormatInit ==
    /\ \E l \in Layout, n \in {4, 5} :
         \E sz \in SeqsOf(0..MaxSize, n) :
            \E st \in StridesFor(sz) :
               meta = [layout |-> l, itemsize |-> 1, sizes |-> sz, strides |-> st]
    /\ mres = [op |-> "none"]

FormatNext ==
    \/ \E exact \in BOOLEAN : AskFormat(exact)
    \/ AskNumel
\* --------------------------------------------- assignment of borrows
NumBorrows == 2
Borrowed == 1..NumBorrows

BorOff == borrow_ = [b \in Borrowed |-> NoView]

\* MaybeOwned<Tensor>::borrowed(h), filling the b-th borrowed object:
\* MaybeOwnedTraits<Tensor>::createBorrow(h).
BorrowFrom(b, h) ==
    /\ h \in live
    /\ borrow_[b] = NoView
    /\ borrow_' = [borrow_ EXCEPT ![b] = [tag |-> "borrowed", impl |-> unsafe_borrow(h)]]
    /\ last' = [op |-> "BorrowFrom", b |-> b, h |-> h]
    /\ UNCHANGED <<live, impl_, ostate, refcount_, nfree, contig, view>>
    /\ UNCHANGED <<thrVars, dimVars, restOld, moreButBor>>

\* An assignBorrow that assigns without releasing what lhs holds first, so
\* that the assignment gives up a reference that lhs never took.
assignBorrow_NoRelease(l, r) ==
    /\ l # r
    /\ borrow_[l].tag = "borrowed"
    /\ borrow_[r].tag = "borrowed"
    /\ LET held == borrow_[l].impl
           tmp == borrow_[r].impl
           afterAssign == reset_(Heap, held)
           moved == Null
           afterTmp == reset_(afterAssign, moved)
       IN  /\ SetHeap(afterTmp)
           /\ borrow_' = [borrow_ EXCEPT ![l].impl = tmp]
           /\ last' = [op |-> "assignBorrow", l |-> l, r |-> r,
                       old |-> borrow_[l].impl, tmp |-> moved]
    /\ UNCHANGED <<live, impl_, view>>
    /\ UNCHANGED <<thrVars, dimVars, restOld, moreButBor>>

\* MaybeOwnedTraits<Tensor>::assignBorrow(lhs, rhs), as the assignment of one
\* borrowed MaybeOwned<Tensor> to another calls it:
\*   lhs.unsafeReleaseTensorImpl();
\*   lhs = borrow_type(borrow_type::unsafe_borrow_t{}, rhs);
\* held is what lhs holds after the release, tmp the temporary borrowed from
\* rhs; the move assignment gives up what lhs holds and takes over tmp, which
\* is left holding moved and is then destroyed.
assignBorrow(l, r) ==
    /\ l # r
    /\ borrow_[l].tag = "borrowed"
    /\ borrow_[r].tag = "borrowed"
    /\ LET held == unsafeReleaseTensorImpl(borrow_[l].impl)
           tmp == borrow_[r].impl
           afterAssign == reset_(Heap, held)
           moved == Null
           afterTmp == reset_(afterAssign, moved)
       IN  /\ SetHeap(afterTmp)
           /\ borrow_' = [borrow_ EXCEPT ![l].impl = tmp]
           /\ last' = [op |-> "assignBorrow", l |-> l, r |-> r,
                       old |-> borrow_[l].impl, tmp |-> moved]
    /\ UNCHANGED <<live, impl_, view>>
    /\ UNCHANGED <<thrVars, dimVars, restOld, moreButBor>>

\* The destruction of the b-th borrowed object: destroyBorrow, then the
\* destructor of the borrowed Tensor.
DropBorrow(b) ==
    /\ borrow_[b].tag = "borrowed"
    /\ SetHeap(reset_(Heap, unsafeReleaseTensorImpl(borrow_[b].impl)))
    /\ borrow_' = [borrow_ EXCEPT ![b] = NoView]
    /\ last' = [op |-> "DropBorrow", b |-> b, old |-> borrow_[b].impl]
    /\ UNCHANGED <<live, impl_, view>>
    /\ UNCHANGED <<thrVars, dimVars, restOld, moreButBor>>

\* Tensors that are made, copied and reset, borrowed MaybeOwned<Tensor>
\* objects of them, and assignments among these.
BorNext ==
    \/ \E h \in Handle : make_tensor(h, {})
    \/ \E h, g \in Handle : CopyConstruct(h, g)
    \/ \E h \in Handle : reset(h)
    \/ \E b \in Borrowed, h \in Handle : BorrowFrom(b, h)
    \/ \E l, r \in Borrowed : assignBorrow(l, r)
    \/ \E b \in Borrowed : DropBorrow(b)
\* ------------------------------------------ borrow_from_optional_tensor
\* c10::nullopt: the c10::optional<Tensor> that holds no Tensor. One that
\* holds a Tensor is written as that Tensor.
NullOpt == 0

\* A borrow_from_optional_tensor that returns an owned copy of the Tensor.
borrow_from_optional_tensor_Copies(v, opt) ==
    /\ view[v].tag = "none"
    /\ opt # NullOpt => opt \in live
    /\ IF opt # NullOpt
       THEN /\ SetHeap(retain_(Heap, impl_[opt]))
            /\ view' = [view EXCEPT ![v] = [tag |-> "owned", impl |-> impl_[opt]]]
       ELSE /\ view' = [view EXCEPT ![v] = [tag |-> "owned", impl |-> Null]]
            /\ UNCHANGED <<ostate, refcount_, nfree, contig>>
    /\ last' = [op |-> "borrow_from_optional_tensor", v |-> v, opt |-> opt]
    /\ UNCHANGED <<live, impl_>>
    /\ UNCHANGED <<thrVars, dimVars, restVars>>

\* c10::MaybeOwned<Tensor> borrow_from_optional_tensor(
\*     const c10::optional<Tensor>& opt), its result in view v:
\*   opt.has_value() ? c10::MaybeOwned<Tensor>::borrowed(*opt)
\*                   : c10::MaybeOwned<Tensor>::owned(c10::in_place)
\* owned(in_place) holds a Tensor made by Tensor().
borrow_from_optional_tensor(v, opt) ==
    /\ view[v].tag = "none"
    /\ opt # NullOpt => opt \in live
    /\ IF opt # NullOpt
       THEN view' = [view EXCEPT ![v] = [tag |-> "borrowed", impl |-> unsafe_borrow(opt)]]
       ELSE view' = [view EXCEPT ![v] = [tag |-> "owned", impl |-> Null]]
    /\ last' = [op |-> "borrow_from_optional_tensor", v |-> v, opt |-> opt]
    /\ UNCHANGED <<live, impl_, ostate, refcount_, nfree, contig>>
    /\ UNCHANGED <<thrVars, dimVars, restVars>>

\* Tensors, defined or not, that are passed as optional arguments, and the
\* MaybeOwned<Tensor> objects made of them.
OptNext ==
    \/ \E h \in Handle : DefaultConstruct(h)
    \/ \E h \in Handle, fmts \in SUBSET MemoryFormat : make_tensor(h, fmts)
    \/ \E h, g \in Handle : CopyConstruct(h, g)
    \/ \E v \in View, opt \in Handle \cup {NullOpt} : borrow_from_optional_tensor(v, opt)
    \/ \E v \in View : destroyBorrow(v)
    \/ \E v \in View : DestroyOwned(v)
\* ------------------------------------------------------------ backward
BwdOff == bcall = [op |-> "none"]

MaxInputs == 2

\* c10::optional<T>: without a value, or holding x.
nullopt == [has_value |-> FALSE]
optional(x) == [has_value |-> TRUE, value |-> x]

\* The error of TORCH_CHECK(inputs.value().size() > 0, ...).
EmptyInputs == "'inputs' argument to backward cannot be empty"

\* The call this->_backward(inputs, gradient, keep_graph, create_graph), as
\* the arguments it is made with; gradient is a const c10::optional<Tensor>&.
BackwardCall(inputs, gradient, keep_graph, create_graph) ==
    [inputs |-> inputs, gradient |-> gradient, keep_graph |-> keep_graph,
     create_graph |-> create_graph]

\* A backward that passes on whatever list it is given, an empty one too.
backward_NoCheck(gradient, retain_graph, create_graph, inputs) ==
    /\ bcall' = [op |-> "backward", gradient |-> gradient, retain_graph |-> retain_graph,
                 create_graph |-> create_graph, inputs |-> inputs, err |-> NoError,
                 calls |-> <<BackwardCall(IF inputs.has_value THEN inputs.value ELSE <<>>,
                                          optional(gradient), retain_graph, create_graph)>>]
    /\ UNCHANGED <<ownVars, thrVars, dimVars, restOld, moreButBwd>>

\* void backward(const Tensor & gradient={},
\*               c10::optional<bool> retain_graph=c10::nullopt,
\*               bool create_graph=false,
\*               c10::optional<TensorList> inputs=c10::nullopt) const
\* calls: the calls of _backward that it has made when it returns or raises.
backward(gradient, retain_graph, create_graph, inputs) ==
    /\ bcall' =
         IF inputs.has_value
         THEN IF Len(inputs.value) > 0
              THEN [op |-> "backward", gradient |-> gradient,
                    retain_graph |-> retain_graph, create_graph |-> create_graph,
                    inputs |-> inputs, err |-> NoError,
                    calls |-> <<BackwardCall(inputs.value, optional(gradient),
                                             retain_graph, create_graph)>>]
              ELSE [op |-> "backward", gradient |-> gradient,
                    retain_graph |-> retain_graph, create_graph |-> create_graph,
                    inputs |-> inputs, err |-> EmptyInputs, calls |-> <<>>]
         ELSE [op |-> "backward", gradient |-> gradient,
               retain_graph |-> retain_graph, create_graph |-> create_graph,
               inputs |-> inputs, err |-> NoError,
               calls |-> <<BackwardCall(<<>>, optional(gradient),
                                        retain_graph, create_graph)>>]
    /\ UNCHANGED <<ownVars, thrVars, dimVars, restOld, moreButBwd>>

\* The lists of Tensors that are given as inputs, and the gradients.
TensorLists == UNION {SeqsOf(Handle, n) : n \in 0..MaxInputs}
Gradients == {UndefGrad} \cup {Grad(n) : n \in 1..MaxGrad}

BwdNext ==
    \E gradient \in Gradients,
       retain_graph \in {nullopt} \cup {optional(b) : b \in BOOLEAN},
       create_graph \in BOOLEAN,
       inputs \in {nullopt} \cup {optional(l) : l \in TensorLists} :
          backward(gradient, retain_graph, create_graph, inputs)
MoreOff == BumpOff /\ AttrOff /\ BorOff /\ BwdOff
AskOff == asked = [fn |-> "none"]

RestOff == WrapOff /\ AskOff /\ HookOff /\ VerOff /\ GfnOff /\ GradOff /\ MoreOff

\* ------------------------------------------------------ specifications
vars == <<ownVars, thrVars, dimVars, restVars>>

Init == OwnInit /\ ThrOff /\ DimOff /\ RestOff
Next == HandleNext
Spec == Init /\ [][Next]_vars

InitView == OwnInit /\ ThrOff /\ DimOff /\ RestOff
SpecView == InitView /\ [][ViewNext]_vars

InitThreads == OwnInit /\ ThrInit /\ DimOff /\ RestOff
SpecThreads == InitThreads /\ [][ThrNext]_vars

InitDim == OwnInit /\ ThrOff /\ DimInit /\ RestOff
SpecDim == InitDim /\ [][DimNext]_vars

InitWrap == OwnInit /\ ThrOff /\ DimOff /\ RestOff
SpecWrap == InitWrap /\ [][WrapNext]_vars

InitAsk == OwnInit /\ ThrOff /\ DimOff /\ RestOff
SpecAsk == InitAsk /\ [][AskNext]_vars

InitHooks == OwnInit /\ ThrOff /\ DimOff /\ RestOff
SpecHooks == InitHooks /\ [][HookNext]_vars

InitVer == OwnInit /\ ThrOff /\ DimOff /\ RestOff
SpecVer == InitVer /\ [][VerNext]_vars

InitGfn == OwnInit /\ ThrOff /\ DimOff /\ RestOff
SpecGfn == InitGfn /\ [][GfnNext]_vars

InitGrad == OwnInit /\ ThrOff /\ DimOff /\ RestOff
SpecGrad == InitGrad /\ [][GradNext]_vars

InitBump == OwnInit /\ ThrOff /\ DimOff /\ RestOff
SpecBump == InitBump /\ [][BumpNext]_vars

InitBytes == OwnInit /\ ThrOff /\ DimOff /\ WrapOff /\ AskOff /\ HookOff /\ VerOff
             /\ GfnOff /\ GradOff /\ BumpOff /\ BorOff /\ BwdOff /\ BytesInit
SpecBytes == InitBytes /\ [][BytesNext]_vars

InitFormat == OwnInit /\ ThrOff /\ DimOff /\ WrapOff /\ AskOff /\ HookOff /\ VerOff
              /\ GfnOff /\ GradOff /\ BumpOff /\ BorOff /\ BwdOff /\ FormatInit
SpecFormat == InitFormat /\ [][FormatNext]_vars

InitBase == OwnInit /\ ThrOff /\ DimOff /\ RestOff
SpecBase == InitBase /\ [][BaseNext]_vars

InitBor == OwnInit /\ ThrOff /\ DimOff /\ RestOff
SpecBor == InitBor /\ [][BorNext]_vars

InitAssign == OwnInit /\ ThrOff /\ DimOff /\ RestOff
SpecAssign == InitAssign /\ [][AssignNext]_vars

InitOpt == OwnInit /\ ThrOff /\ DimOff /\ RestOff
SpecOpt == InitOpt /\ [][OptNext]_vars

InitBwd == OwnInit /\ ThrOff /\ DimOff /\ RestOff
SpecBwd == InitBwd /\ [][BwdNext]_vars

\* ------------------------------------------------------------ claims
\* The step was made by one of the operations ops.
Did(ops) == last'.op \in ops

\* The owning Tensors of a TensorImpl: the constructed Tensors that point to
\* it, and the Tensors held by MaybeOwned objects in owned mode.
Owners(o) ==
    Cardinality({h \in live : impl_[h] = o})
      + Cardinality({v \in View : view[v].tag = "owned" /\ view[v].impl = o})

\* C1 (as stated): every copy of a defined Tensor g into another Tensor h, by
\* copy construction or copy assignment, makes h the same as g and the strong
\* count exactly one higher than before the copy.
C1_Original ==
    [][\A h, g \in Handle :
        Did({"CopyConstruct", "CopyAssign"}) /\ h # g /\ defined(g)
          /\ (CopyConstruct(h, g) \/ CopyAssign(h, g))
          => /\ is_same(h, g)'
             /\ use_count(g)' = use_count(g) + 1]_vars

\* C1 (amended): a copy h of a defined Tensor g is the same as g; the strong
\* count is one higher than before the copy, except that copy assignment to a
\* Tensor that already points to the same TensorImpl leaves it as it was; and
\* destroying one of two Tensors that share a TensorImpl lowers the count by
\* exactly one and leaves the other defined, on the same, undeleted TensorImpl.
C1_CopyThenDestroy ==
    [][\A h, g \in Handle :
        /\ Did({"CopyConstruct"}) /\ CopyConstruct(h, g) /\ defined(g)
             => /\ is_same(h, g)'
                /\ use_count(g)' = use_count(g) + 1
        /\ Did({"CopyAssign"}) /\ CopyAssign(h, g) /\ defined(g)
             => /\ is_same(h, g)'
                /\ use_count(g)' =
                     use_count(g) + (IF impl_[h] = impl_[g] THEN 0 ELSE 1)
        /\ Did({"Destroy"}) /\ Destroy(h) /\ g \in live /\ g # h /\ defined(g) /\ is_same(h, g)
             => /\ use_count(g)' = use_count(g) - 1
                /\ defined(g)'
                /\ impl_'[g] = impl_[g]
                /\ ostate'[impl_[g]] = "live"]_vars

\* A copy assignment to a Tensor that already shared the TensorImpl has run.
C1_Witness ==
    /\ last.op = "CopyAssign"
    /\ last.h # last.g
    /\ last.old # Null
    /\ last.old = impl_[last.g]
    /\ is_same(last.h, last.g)
    /\ use_count(last.g) = 2

\* C3: the strong count of every TensorImpl is the number of its owning
\* Tensors; it is deleted exactly when the count is zero, and never twice;
\* destroying or resetting an undefined Tensor changes no count.
C3_CountInv ==
    \A o \in Obj :
        /\ ostate[o] = "unalloc" => refcount_[o] = 0 /\ Owners(o) = 0 /\ nfree[o] = 0
        /\ ostate[o] = "live" => refcount_[o] = Owners(o) /\ refcount_[o] > 0 /\ nfree[o] = 0
        /\ ostate[o] = "freed" => refcount_[o] = 0 /\ Owners(o) = 0 /\ nfree[o] = 1

C3_CountIsOwners ==
    /\ []C3_CountInv
    /\ [][\A h \in Handle :
            Did({"Destroy", "reset"}) /\ (Destroy(h) \/ reset(h)) /\ ~defined(h)
              => refcount_' = refcount_ /\ ostate' = ostate]_vars

\* The last owning Tensor of a TensorImpl was reset and the TensorImpl deleted,
\* while another TensorImpl lives on with its owner.
C3_Witness ==
    /\ last.op = "reset"
    /\ last.old # Null
    /\ ostate[last.old] = "freed"
    /\ \E o \in Obj : ostate[o] = "live" /\ refcount_[o] = 1

\* C4 (as stated): move construction and move assignment leave the strong
\* count of the moved TensorImpl as it was, and the source undefined.
C4_Original ==
    [][\A h, g \in Handle :
        Did({"MoveConstruct", "MoveAssign"}) /\ (MoveConstruct(h, g) \/ MoveAssign(h, g)) /\ defined(g)
          => /\ impl_'[h] = impl_[g]
             /\ ~defined(g)'
             /\ refcount_'[impl_[g]] = refcount_[impl_[g]]]_vars

\* C4 (amended): a move from a defined Tensor g to another Tensor h leaves h on
\* g's TensorImpl and g undefined; the strong count is unchanged, except that
\* move assignment to a Tensor that already pointed to the same TensorImpl
\* gives up that Tensor's own reference, so the count is one lower.
C4_MoveTransfers ==
    [][\A h, g \in Handle :
        /\ Did({"MoveConstruct"}) /\ MoveConstruct(h, g) /\ defined(g)
             => /\ impl_'[h] = impl_[g]
                /\ ~defined(g)'
                /\ refcount_'[impl_[g]] = refcount_[impl_[g]]
        /\ Did({"MoveAssign"}) /\ MoveAssign(h, g) /\ defined(g)
             => /\ impl_'[h] = impl_[g]
                /\ ~defined(g)'
                /\ refcount_'[impl_[g]] =
                     refcount_[impl_[g]] - (IF impl_[h] = impl_[g] THEN 1 ELSE 0)]_vars

\* A move assignment between two Tensors of different TensorImpls has run: the
\* source is undefined, the destination has the moved TensorImpl, count 1.
C4_Witness ==
    /\ last.op = "MoveAssign"
    /\ last.old # Null
    /\ defined(last.h)
    /\ impl_[last.h] # last.old
    /\ ~defined(last.g)
    /\ use_count(last.h) = 1
    /\ ostate[last.old] = "freed"

\* C2: making a borrowed Tensor from a Tensor h changes no strong count, and
\* neither does destroying it (destroyBorrow, then its destructor); the
\* destruction of the borrow deletes no TensorImpl.
C2_BorrowLeavesCount ==
    [][\A v \in View :
        /\ \A h \in Handle :
             Did({"createBorrow"}) /\ createBorrow(v, h)
               => /\ view'[v].impl = impl_[h]
                  /\ refcount_' = refcount_
                  /\ ostate' = ostate
        /\ Did({"destroyBorrow"}) /\ destroyBorrow(v)
             => /\ refcount_' = refcount_
                /\ ostate' = ostate
                /\ nfree' = nfree]_vars

\* A borrow of a live TensorImpl with one owner was destroyed; the TensorImpl
\* is still live and its count is still 1.
C2_Witness ==
    /\ last.op = "destroyBorrow"
    /\ last.old # Null
    /\ ostate[last.old] = "live"
    /\ refcount_[last.old] = 1
    /\ Owners(last.old) = 1

\* C6: contiguous(mf) on a Tensor that is contiguous in mf returns a Tensor
\* that is the same as the original: no TensorImpl is made, the dispatcher
\* is not called, and the strong count is one higher.
C6_ContiguousAliases ==
    [][\A h, g \in Handle, mf \in MemoryFormat :
        Did({"contiguous"}) /\ contiguous(g, h, mf) /\ is_contiguous(h, mf)
          => /\ is_same(g, h)'
             /\ ostate' = ostate
             /\ ~last'.dispatched
             /\ use_count(h)' = use_count(h) + 1]_vars

\* contiguous(ChannelsLast) returned an alias of a Tensor that is contiguous in
\* ChannelsLast and not in Contiguous.
C6_Witness ==
    /\ last.op = "contiguous"
    /\ ~last.dispatched
    /\ last.mf = "ChannelsLast"
    /\ is_same(last.g, last.h)
    /\ ~is_contiguous(last.h, "Contiguous")
    /\ use_count(last.h) = 2

\* C7: contiguous(mf) on a Tensor that is not contiguous in mf returns a
\* Tensor that is not the same as the original and is contiguous in mf; the
\* original keeps its TensorImpl, its metadata and its strong count.
C7_ContiguousMaterializes ==
    [][\A h, g \in Handle, mf \in MemoryFormat :
        Did({"contiguous"}) /\ contiguous(g, h, mf) /\ ~is_contiguous(h, mf)
          => /\ ~is_same(g, h)'
             /\ is_contiguous(g, mf)'
             /\ impl_'[h] = impl_[h]
             /\ refcount_'[impl_[h]] = refcount_[impl_[h]]
             /\ contig'[impl_[h]] = contig[impl_[h]]
             /\ ostate'[impl_[h]] = "live"]_vars

\* contiguous(Contiguous) on a Tensor that is not contiguous returned a Tensor
\* of another TensorImpl, which is contiguous.
C7_Witness ==
    /\ last.op = "contiguous"
    /\ last.dispatched
    /\ last.mf = "Contiguous"
    /\ ~is_same(last.g, last.h)
    /\ ~is_contiguous(last.h, "Contiguous")
    /\ is_contiguous(last.g, "Contiguous")
    /\ use_count(last.h) = 1

\* C8: expect_contiguous(mf) on a Tensor that is contiguous in mf returns a
\* MaybeOwned in borrowed mode on the same TensorImpl; the call changes no
\* strong count, and neither does the destruction of the borrowed MaybeOwned;
\* while the MaybeOwned is there, the count is the number of owning Tensors.
C8_ViewAddsNothing ==
    \A v \in View :
        view[v].tag = "borrowed" /\ view[v].impl # Null /\ ostate[view[v].impl] = "live"
          => refcount_[view[v].impl] = Owners(view[v].impl)

C8_ExpectBorrows ==
    /\ []C8_ViewAddsNothing
    /\ [][\A v \in View :
        /\ \A h \in Handle, mf \in MemoryFormat :
             Did({"expect_contiguous"}) /\ expect_contiguous(v, h, mf) /\ is_contiguous(h, mf)
               => /\ view'[v] = [tag |-> "borrowed", impl |-> impl_[h]]
                  /\ refcount_' = refcount_
                  /\ ostate' = ostate
        /\ Did({"destroyBorrow"}) /\ destroyBorrow(v)
             => /\ refcount_' = refcount_
                /\ ostate' = ostate]_vars

\* expect_contiguous returned a borrowed MaybeOwned on the TensorImpl of a
\* contiguous Tensor that has one owner.
C8_Witness ==
    /\ last.op = "expect_contiguous"
    /\ ~last.dispatched
    /\ view[last.v].tag = "borrowed"
    /\ view[last.v].impl = impl_[last.h]
    /\ is_contiguous(last.h, last.mf)
    /\ use_count(last.h) = 1

\* C9: expect_contiguous(mf) on a Tensor that is not contiguous in mf returns
\* a MaybeOwned in owned mode on a newly made TensorImpl; the source Tensor,
\* its metadata and its strong count are as before, after the call and after
\* the destruction of the MaybeOwned, which gives up exactly the one reference
\* to the new TensorImpl.
C9_ExpectOwnsCopy ==
    [][\A v \in View :
        /\ \A h \in Handle, mf \in MemoryFormat :
             Did({"expect_contiguous"}) /\ expect_contiguous(v, h, mf) /\ ~is_contiguous(h, mf)
               => /\ view'[v].tag = "owned"
                  /\ view'[v].impl # impl_[h]
                  /\ ostate[view'[v].impl] = "unalloc"
                  /\ ostate'[view'[v].impl] = "live"
                  /\ refcount_'[view'[v].impl] = 1
                  /\ mf \in contig'[view'[v].impl]
                  /\ impl_' = impl_
                  /\ refcount_'[impl_[h]] = refcount_[impl_[h]]
                  /\ contig'[impl_[h]] = contig[impl_[h]]
        /\ Did({"DestroyOwned"}) /\ DestroyOwned(v)
             => /\ refcount_'[view[v].impl] = refcount_[view[v].impl] - 1
                /\ impl_' = impl_
                /\ \A o \in Obj \ {view[v].impl} :
                     /\ refcount_'[o] = refcount_[o]
                     /\ contig'[o] = contig[o]
                     /\ ostate'[o] = ostate[o]]_vars

\* The owned MaybeOwned made by expect_contiguous was destroyed and its
\* TensorImpl deleted; the source Tensor is live, not contiguous, count 1.
C9_Witness ==
    /\ last.op = "DestroyOwned"
    /\ ostate[last.old] = "freed"
    /\ \E h \in live :
         /\ defined(h)
         /\ contig[impl_[h]] = {}
         /\ use_count(h) = 1

RECURSIVE SumOwn(_)
SumOwn(T) == IF T = {} THEN 0 ELSE LET t == CHOOSE x \in T : TRUE IN own[t] + SumOwn(T \ {t})
Quiescent == \A t \in Thread : pc[t] = "idle"

\* C5: whatever the interleaving of the threads' copies and destructions, when
\* no thread is inside one the strong count is the number of owning Tensors;
\* the TensorImpl is not deleted while a thread owns a Tensor of it, and it is
\* deleted exactly once after the last one is destroyed.
C5_NoLostUpdate ==
    /\ Quiescent => trc = SumOwn(Thread)
    /\ SumOwn(Thread) > 0 => tfreed = 0 /\ trc >= SumOwn(Thread)
    /\ tfreed <= 1
    /\ Quiescent /\ SumOwn(Thread) = 0 => tfreed = 1

\* Every thread has copied and destroyed until no Tensor is left, and the
\* TensorImpl was deleted once.
C5_Witness ==
    /\ Quiescent
    /\ SumOwn(Thread) = 0
    /\ trc = 0
    /\ tfreed = 1

\* C10: for a Tensor of rank r and dim in [0, r), size(dim) = size(dim - r)
\* and stride(dim) = stride(dim - r), the values at position dim; size(r) and
\* size(-r-1) fail with IndexOutOfRange, as does every index outside [-r, r),
\* for which no value is returned (every index when r = 0).
C10_WrapDim ==
    LET r == dim IN
    /\ \A d \in 0..(r - 1) :
         /\ size(d) = Value(sizes_[d + 1])
         /\ size(d - r) = size(d)
         /\ stride(d) = Value(strides_[d + 1])
         /\ stride(d - r) = stride(d)
    /\ size(r) = IndexError
    /\ size(0 - r - 1) = IndexError
    /\ \A d \in Indices :
         d < 0 - r \/ d >= r => size(d) = IndexError /\ stride(d) = IndexError
    /\ query.fn # "none" /\ (query.dim < 0 - r \/ query.dim >= r)
         => query.res = IndexError
    /\ query.fn # "none" /\ query.res.ok
         => /\ query.dim \in (0 - r)..(r - 1)
            /\ query.res.val =
                 (IF query.fn = "size" THEN sizes_ ELSE strides_)
                   [IF query.dim < 0 THEN query.dim + r + 1 ELSE query.dim + 1]

\* size(-2) on a Tensor of rank 2 with different sizes returned the first size.
C10_Witness ==
    /\ query.fn = "size"
    /\ dim = 2
    /\ query.dim = 0 - 2
    /\ query.res.ok
    /\ query.res.val = sizes_[1]
    /\ sizes_[1] # sizes_[2]

\* C11: constructing a Tensor from an intrusive_ptr that is null throws
\* (InvariantViolation) and makes no Tensor, leaving every count as it was;
\* from a non-null intrusive_ptr the Tensor takes over the reference the pointer
\* held: the Tensor points to that TensorImpl, the caller's pointer is left
\* null, and the strong count after the construction is the count before it.
C11_ConstructFromOwned ==
    [][\A h \in Handle :
        /\ Did({"Tensor"}) /\ Tensor(h) /\ tensor_impl = Null
             => /\ last'.err = InvariantViolation
                /\ live' = live
                /\ impl_' = impl_
                /\ refcount_' = refcount_
                /\ ostate' = ostate
        /\ \A o \in Obj :
             Did({"Tensor"}) /\ Tensor(h) /\ tensor_impl = o
               => /\ last'.err = NoError
                  /\ h \in live'
                  /\ impl_'[h] = o
                  /\ tensor_impl' = Null
                  /\ refcount_'[o] = refcount_[o]
                  /\ refcount_[o] = 1 + Owners(o)
                  /\ refcount_'[o] = Owners(o)'
                  /\ ostate' = ostate]_vars

\* The constructor was called with a null pointer and threw, and made no
\* Tensor, after it had made a Tensor from a non-null pointer.
C11_Witness ==
    /\ last.op = "Tensor"
    /\ last.err = InvariantViolation
    /\ last.arg = Null
    /\ last.h \notin live
    /\ \E g \in live : defined(g) /\ use_count(g) = 1

\* C12 (as stated): every defined Tensor made from an owned reference, by the
\* constructor, by wrap_tensor_impl or by make_tensor, is on a TensorImpl on
\* which enforce_invariants ran and passed.
C12_Original ==
    \A h \in live : defined(h) => impl_[h] \in enforced

\* C12 (amended): a Tensor returned by wrap_tensor_impl is on a TensorImpl on
\* which enforce_invariants ran and passed; when the check fails nothing is
\* returned and the reference is given up. The constructor and make_tensor
\* return their Tensor without running the check.
C12_EnforcedNotBroken ==
    enforced \cap broken = {}

C12_OnlyWrapEnforces ==
    /\ []C12_EnforcedNotBroken
    /\ [][\A h \in Handle :
        /\ Did({"wrap_tensor_impl"}) /\ wrap_tensor_impl(h) /\ tensor_impl # Null
             => IF tensor_impl \in broken
                THEN /\ last'.err = InvariantViolation
                     /\ live' = live
                     /\ refcount_'[tensor_impl] = refcount_[tensor_impl] - 1
                     /\ tensor_impl' = Null
                ELSE /\ last'.err = NoError
                     /\ h \in live'
                     /\ impl_'[h] = tensor_impl
                     /\ impl_'[h] \in enforced'
                     /\ refcount_' = refcount_
        /\ Did({"Tensor"}) /\ Tensor(h) /\ tensor_impl # Null
             => h \in live' /\ enforced' = enforced
        /\ \A fmts \in SUBSET MemoryFormat :
             Did({"make_tensor"}) /\ make_tensor(h, fmts)
               => h \in live' /\ defined(h)' /\ enforced' = enforced]_vars

\* wrap_tensor_impl returned a Tensor that passed the check, while another
\* Tensor, made by the constructor, is on a TensorImpl that fails it.
C12_Witness ==
    /\ last.op = "wrap_tensor_impl"
    /\ last.err = NoError
    /\ impl_[last.h] \in enforced
    /\ \E g \in live : defined(g) /\ impl_[g] \in broken /\ impl_[g] \notin enforced

\* The queries that C13 names as failing on an undefined Tensor.
C13_Named == {"dim", "sizes", "size", "numel", "has_storage", "is_cuda", "is_contiguous"}

\* C13 (as stated): a default-constructed Tensor is undefined, and each of dim,
\* sizes, size, numel, has_storage, is_cuda and is_contiguous on an undefined
\* Tensor raises UndefinedState and returns no value.
C13_OriginalInv ==
    asked.fn \in C13_Named /\ asked.undef => asked.res = UndefinedState

C13_Original ==
    /\ []C13_OriginalInv
    /\ [][\A h \in Handle :
            Did({"DefaultConstruct"}) /\ DefaultConstruct(h) => ~defined(h)']_vars

\* C13 (amended): a default-constructed Tensor is undefined: defined() is
\* false, use_count() is 0, has_storage() returns false, and each of dim,
\* sizes, size, numel, is_cuda and is_contiguous, which go to the TensorImpl
\* unguarded, raises UndefinedState and returns no value; on a defined Tensor
\* none of them raises.
C13_UndefinedInv ==
    /\ asked.fn \in C13_Named \ {"has_storage"} /\ asked.undef
         => asked.res = UndefinedState
    /\ asked.fn = "has_storage" /\ asked.undef => asked.res = Value(FALSE)
    /\ asked.fn = "defined" /\ asked.undef => asked.res = Value(FALSE)
    /\ asked.fn = "use_count" /\ asked.undef => asked.res = Value(0)
    /\ asked.fn # "none" /\ ~asked.undef => asked.res.ok

C13_UndefinedQueries ==
    /\ []C13_UndefinedInv
    /\ [][\A h \in Handle :
            Did({"DefaultConstruct"}) /\ DefaultConstruct(h)
              => ~defined(h)' /\ use_count(h)' = 0 /\ refcount_' = refcount_]_vars

\* has_storage() was asked of a default-constructed Tensor, still undefined,
\* and returned false.
C13_Witness ==
    /\ asked.fn = "has_storage"
    /\ asked.undef
    /\ asked.res = Value(FALSE)
    /\ last.op = "DefaultConstruct"
    /\ last.h = asked.h
    /\ ~defined(asked.h)

\* C14: is_same(h, g) is true exactly when h and g point to the same
\* TensorImpl, two undefined Tensors being the same; it is reflexive and
\* symmetric; two different Tensors that are the same share one strong count;
\* a Tensor on a newly made TensorImpl is not the same as any Tensor there
\* was, whatever the two TensorImpls hold, while a copy is the same as its
\* source.
C14_SameInv ==
    \A h, g \in live :
        /\ is_same(h, h)
        /\ is_same(h, g) = is_same(g, h)
        /\ is_same(h, g) <=> impl_[h] = impl_[g]
        /\ ~defined(h) /\ ~defined(g) => is_same(h, g)
        /\ defined(h) /\ ~defined(g) => ~is_same(h, g)
        /\ h # g /\ defined(h) /\ is_same(h, g) => refcount_[impl_[h]] >= 2

C14_IsSameIsIdentity ==
    /\ []C14_SameInv
    /\ [][\A h, g \in Handle :
            /\ \A fmts \in SUBSET MemoryFormat :
                 Did({"make_tensor"}) /\ make_tensor(h, fmts) /\ g \in live
                   => ~is_same(h, g)' /\ ~is_same(g, h)'
            /\ Did({"CopyConstruct"}) /\ CopyConstruct(h, g)
                 => is_same(h, g)' /\ is_same(g, h)']_vars

\* Two Tensors on two TensorImpls that hold the same are not the same, the
\* second just made.
C14_Witness ==
    /\ last.op = "make_tensor"
    /\ \E g \in live :
         /\ g # last.h
         /\ defined(g)
         /\ impl_[g] # impl_[last.h]
         /\ contig[impl_[g]] = contig[impl_[last.h]]
         /\ ~is_same(last.h, g)

\* The step was made by one of the hook operations ops.
DidHook(ops) == hlast'.op \in ops

\* C15: when a gradient is computed, the registered hooks are called once
\* each, in the order of their registration (a newly registered hook comes
\* after all that are registered); the first gets the computed gradient, and
\* each later one gets what the hook before it returned, or, after a hook
\* that returns void, what that hook was given; the last such value is the
\* result.
C15_CallsInv ==
    hlast.op = "compute" =>
        LET c == hlast.calls
            Passed(i) == IF ReturnsVoid(hooks_[i].fn) THEN c[i].arg
                         ELSE Apply(hooks_[i].fn, c[i].arg)
        IN  /\ Len(c) = Len(hooks_)
            /\ \A i \in 1..Len(c) : c[i].pos = hooks_[i].pos
            /\ \A i, j \in 1..Len(c) : i < j => c[i].pos < c[j].pos
            /\ Len(c) > 0 => c[1].arg = hlast.g
            /\ \A i \in 1..(Len(c) - 1) : c[i + 1].arg = Passed(i)
            /\ hlast.out = IF Len(c) = 0 THEN hlast.g ELSE Passed(Len(c))

C15_HooksInOrder ==
    /\ []C15_CallsInv
    /\ [][\A hk \in HookFn :
            DidHook({"register_hook"}) /\ register_hook(hk)
              => /\ Len(hooks_') = Len(hooks_) + 1
                 /\ SubSeq(hooks_', 1, Len(hooks_)) = hooks_
                 /\ hooks_'[Len(hooks_')].fn = hk
                 /\ hooks_'[Len(hooks_')].pos = hlast'.pos]_vars

\* plus1 was registered before twice, and a gradient g was computed: twice
\* was called with g + 1 and the result is 2 * (g + 1).
C15_Witness ==
    /\ hlast.op = "compute"
    /\ Len(hooks_) = 2
    /\ hooks_[1].fn = "plus1"
    /\ hooks_[2].fn = "twice"
    /\ hlast.calls[1].arg = hlast.g
    /\ hlast.calls[2].arg = Grad(hlast.g.val + 1)
    /\ hlast.out = Grad(2 * (hlast.g.val + 1))

\* C16: remove_hook(pos) takes out the hook registered at pos and no other,
\* the others keeping their order; a position that is taken out or cleared is
\* never registered again, and a computation calls registered hooks only; with
\* no hook at pos (never returned, removed or cleared) remove_hook raises
\* nothing and changes nothing.
C16_RemoveExactly ==
    [][/\ \A pos \in 0..MaxHooks :
            DidHook({"remove_hook"}) /\ remove_hook(pos)
              => /\ hlast'.err = NoError
                 /\ next_pos' = next_pos
                 /\ issued' = issued
                 /\ IF pos \in Positions(hooks_)
                    THEN /\ Positions(hooks_') = Positions(hooks_) \ {pos}
                         /\ Len(hooks_') = Len(hooks_) - 1
                         /\ \A i \in 1..Len(hooks_') :
                              \E k \in 1..Len(hooks_) : hooks_'[i] = hooks_[k]
                         /\ \A i, j \in 1..Len(hooks_') :
                              i < j => hooks_'[i].pos < hooks_'[j].pos
                    ELSE hooks_' = hooks_
       /\ \A pos \in issued :
            pos \notin Positions(hooks_) => pos \notin Positions(hooks_')
       /\ \A n \in 1..MaxGrad :
            DidHook({"compute"}) /\ ComputeGrad(n)
              => \A i \in 1..Len(hlast'.calls) :
                   hlast'.calls[i].pos \in Positions(hooks_)]_vars

\* remove_hook was called again for a position that had been removed from
\* between two others: nothing was raised and the two are registered, in order.
C16_Witness ==
    /\ hlast.op = "remove_hook"
    /\ ~hlast.found
    /\ hlast.err = NoError
    /\ hlast.pos \in issued
    /\ Len(hooks_) = 2
    /\ hooks_[1].pos < hlast.pos
    /\ hlast.pos < hooks_[2].pos

\* C17: the position that register_hook returns is greater than every position
\* it returned before, whatever was removed in between; the registered hooks
\* have different positions, and each is registered under the position that
\* was returned for it.
C17_DistinctInv ==
    /\ \A i, j \in 1..Len(hooks_) : i < j => hooks_[i].pos < hooks_[j].pos
    /\ Positions(hooks_) \subseteq issued

C17_TokensIncrease ==
    /\ []C17_DistinctInv
    /\ [][\A hk \in HookFn :
            DidHook({"register_hook"}) /\ register_hook(hk)
              => /\ \A t \in issued : hlast'.pos > t
                 /\ hlast'.pos \notin Positions(hooks_)
                 /\ \E i \in 1..Len(hooks_') :
                      hooks_'[i].pos = hlast'.pos /\ hooks_'[i].fn = hk]_vars

\* A hook was registered after the two registered before it had been removed:
\* it is the only hook, and its position is 2.
C17_Witness ==
    /\ hlast.op = "register_hook"
    /\ Len(hooks_) = 1
    /\ issued = {0, 1, 2}
    /\ hooks_[1].pos = 2
    /\ hlast.pos = 2

\* C18: an in-place operation through a Tensor raises the version counter of
\* its TensorImpl by exactly one, as seen through every Tensor that points to
\* it, and no other counter; the counter of a TensorImpl that is not deleted
\* never goes down; and a step that is not an in-place operation (a query, a
\* copy, a move, a borrow, a construction or the destruction of a Tensor)
\* leaves every counter as it was.
C18_VersionBumps ==
    [][/\ \A h \in Handle :
            Did({"operator+="}) /\ operator_add_assign(h)
              => /\ version_'[impl_[h]] = version_[impl_[h]] + 1
                 /\ \A g \in live : is_same(g, h) => _version(g)' = _version(g) + 1
                 /\ \A o \in Obj \ {impl_[h]} : version_'[o] = version_[o]
       /\ \A o \in Obj :
            ostate[o] = "live" /\ ostate'[o] = "live" => version_'[o] >= version_[o]
       /\ (last' # last \/ asked' # asked \/ view' # view) /\ ~Did({"operator+="})
            => version_' = version_]_vars

\* A TensorImpl with two Tensors was changed in place twice, once through
\* each, and both see version 2.
C18_Witness ==
    /\ last.op = "operator+="
    /\ \E g \in live :
         /\ g # last.h
         /\ is_same(g, last.h)
         /\ _version(g) = 2
         /\ _version(last.h) = 2
         /\ use_count(g) = 2

\* C19: when the version of the base of a view has advanced since the grad_fn
\* of the view was derived, grad_fn() on the view returns a Node that was made
\* for this call: it is not the Node the view held before, nor any Node made
\* earlier; and whenever grad_fn() returns on a view, the Node it returns was
\* derived at the version the base has at that moment.
C19_ReportedInv ==
    glast.op = "grad_fn" /\ is_view(glast.obj)
      => /\ glast.res = grad_fn_[glast.obj]
         /\ attr_version_[glast.obj] = glast.derived_at
         /\ attr_version_[glast.obj] <= version_[view_base(glast.obj)]

C19_GradFnRederived ==
    /\ []C19_ReportedInv
    /\ [][\A h \in Handle, o \in Obj :
            grad_fn(h) /\ impl_[h] = o /\ is_view(o)
              => /\ glast'.derived_at = version_[view_base(o)]
                 /\ attr_version_'[o] = version_[view_base(o)]
                 /\ version_[view_base(o)] > attr_version_[o]
                      => /\ glast'.res # grad_fn_[o]
                         /\ glast'.res # glast'.before
                         /\ glast'.res > nodes
                         /\ glast'.res = grad_fn_'[o]]_vars

\* The base of a view was changed in place after the grad_fn of the view had
\* been derived; grad_fn() on the view returned another Node, derived at the
\* new version.
C19_Witness ==
    /\ glast.op = "grad_fn"
    /\ is_view(glast.obj)
    /\ glast.before # 0
    /\ glast.res # glast.before
    /\ glast.derived_at = version_[view_base(glast.obj)]
    /\ glast.derived_at > 0
    /\ last.op = "operator+="

\* The step was made by one of the operations ops on grad.
DidGrad(ops) == dlast'.op \in ops

\* C20: grad() is undefined until a backward pass has computed a gradient for
\* the Tensor (or the caller has set one); a backward pass that computes
\* gradient g leaves g in an undefined grad and grad + g in a defined one; a
\* backward pass in which no gradient flows, a read and a hook registration
\* leave grad as it is; and grad takes a value that is not such a sum only by
\* an assignment through mutable_grad(), which leaves the value assigned.
C20_UndefinedUntil ==
    grad_.defined
      => dlast.op \in {"backward", "mutable_grad", "grad"} /\ dlast.op # "init"

C20_GradAccumulates ==
    /\ []C20_UndefinedUntil
    /\ [][/\ \A n \in 1..MaxGrad :
               DidGrad({"backward"}) /\ _backward(n)
                 => /\ grad_'.defined
                    /\ dlast'.g.defined
                    /\ ~grad_.defined => grad_' = dlast'.g
                    /\ grad_.defined => grad_'.val = grad_.val + dlast'.g.val
          /\ DidGrad({"backward"}) /\ BackwardElsewhere => grad_' = grad_
          /\ DidGrad({"grad"}) /\ ReadGrad => grad_' = grad_ /\ dlast'.res = grad_
          /\ \A x \in {UndefGrad} \cup {Grad(n) : n \in 1..MaxGrad} :
               DidGrad({"mutable_grad"}) /\ mutable_grad(x) => grad_' = x
          /\ grad_' # grad_ /\ ~DidGrad({"mutable_grad"})
               => /\ DidGrad({"backward"})
                  /\ dlast'.g.defined
                  /\ grad_' = Accumulate(grad_, dlast'.g)
                  /\ grad_.defined => grad_'.val > grad_.val]_vars

\* A second backward pass added its gradient, which a hook had doubled, to
\* the gradient that the first had left.
C20_Witness ==
    /\ dlast.op = "backward"
    /\ dlast.g.defined
    /\ grad_.defined
    /\ grad_.val > dlast.g.val
    /\ Len(hooks_) = 1
    /\ hooks_[1].fn = "twice"
    /\ dlast.g.val = 2 * MaxGrad

C22_Answer ==
    mres.op = "nbytes" =>
        IF meta.layout = "Sparse"
        THEN ~mres.res.ok /\ mres.res.err = "UnsupportedOperation"
        ELSE mres.res.ok /\ mres.res.val = Prod(meta.sizes) * meta.itemsize

C22_NbytesOrUnsupported ==
    /\ []C22_Answer
    /\ [][mres'.op = "nbytes" => meta' = meta /\ ownVars' = ownVars]_vars

\* nbytes() has failed on a sparse Tensor that has elements.
C22_Witness ==
    /\ mres.op = "nbytes"
    /\ meta.layout = "Sparse"
    /\ Prod(meta.sizes) * meta.itemsize > 1
    /\ ~mres.res.ok

\* ---------------------------------------------------------------- C23
\* The strides of a channels-last Tensor of the sizes of the Tensor, written
\* out for the ranks 4 and 5.
C23_Canonical ==
    LET sz == meta.sizes
        st == meta.strides
    IN  IF Len(sz) = 4
        THEN /\ st[2] = 1
             /\ st[4] = sz[2]
             /\ st[3] = sz[2] * sz[4]
             /\ st[1] = sz[2] * sz[4] * sz[3]
        ELSE /\ st[2] = 1
             /\ st[5] = sz[2]
             /\ st[4] = sz[2] * sz[5]
             /\ st[3] = sz[2] * sz[5] * sz[4]
             /\ st[1] = sz[2] * sz[5] * sz[4] * sz[3]

\* C23: suggest_memory_format(exact) is Contiguous for every mkldnn or sparse
\* Tensor; otherwise it is ChannelsLast exactly when the strides are like
\* channels-last and (exact is false or the strides are the channels-last
\* strides of the sizes), ChannelsLast3d exactly when the strides are not like
\* channels-last but like channels-last-3d and (exact is false or the strides
\* are the channels-last-3d strides of the sizes), and Contiguous in every
\* other case; so with exact, a result other than Contiguous means that the
\* strides are the channels-last strides of the sizes.
C23_SuggestFormat ==
    mres.op = "suggest_memory_format" =>
        LET like2d == is_strides_like_channels_last
            like3d == is_strides_like_channels_last_3d
            ok == ~mres.exact \/ C23_Canonical
        IN  /\ meta.layout \in {"Mkldnn", "Sparse"} => mres.res = "Contiguous"
            /\ meta.layout \notin {"Mkldnn", "Sparse"} =>
                  /\ mres.res = "ChannelsLast" <=> (like2d /\ ok)
                  /\ mres.res = "ChannelsLast3d" <=> (~like2d /\ like3d /\ ok)
                  /\ mres.res \in {"ChannelsLast", "ChannelsLast3d", "Contiguous"}
            /\ (mres.exact /\ mres.res # "Contiguous") => C23_Canonical

\* With exact, a Tensor whose strides are like channels-last, and are not the
\* channels-last strides of its sizes, was answered Contiguous.
C23_Witness ==
    /\ mres.op = "suggest_memory_format"
    /\ mres.exact
    /\ meta.layout = "Strided"
    /\ is_strides_like_channels_last
    /\ ~C23_Canonical
    /\ mres.res = "Contiguous"

\* ---------------------------------------------------------------- C24
\* C24: _base() on a Tensor that is not a view fails with ViewHasNoBase and
\* returns no Tensor; on a Tensor that is a view it returns a defined Tensor,
\* one whose TensorImpl is alive at the time of the call.
C24_BaseOrError ==
    [][\A h \in Handle :
          _base(h) =>
             IF is_view(impl_[h])
             THEN /\ glast'.res.ok
                  /\ glast'.res.val # Null
                  /\ ostate'[glast'.res.val] = "live"
                  /\ ~is_view(glast'.res.val)
             ELSE /\ ~glast'.res.ok
                  /\ glast'.res.err = "ViewHasNoBase"]_vars

\* _base() has failed on a Tensor that is not a view, while a view of that
\* Tensor exists.
C24_Witness ==
    /\ glast.op = "_base"
    /\ ~glast.res.ok
    /\ \E o \in Obj : is_view(o) /\ view_base(o) = glast.obj

\* ---------------------------------------------------------------- C25
\* C25: a hook that returns void never replaces the gradient: register_hook
\* stores it as a function that calls it and returns an undefined Tensor, so
\* when a gradient is computed the hook registered after it is called with
\* the gradient the void hook was called with, and after a last void hook
\* that gradient is the result.
C25_VoidInv ==
    /\ \A i \in 1..Len(hooks_) :
          ReturnsVoid(hooks_[i].fn) =>
             /\ hooks_[i].wrapped
             /\ \A n \in 1..MaxGrad : CallStored(hooks_[i], Grad(n)) = UndefGrad
    /\ hlast.op = "compute" =>
          \A i \in 1..Len(hlast.calls) :
             ReturnsVoid(hooks_[i].fn) =>
                IF i < Len(hlast.calls)
                THEN hlast.calls[i + 1].arg = hlast.calls[i].arg
                ELSE hlast.out = hlast.calls[i].arg

C26_CountInv ==
    \A o \in Obj : ostate[o] = "live" => refcount_[o] = Owners(o)

C26_AssignBorrowLeavesCounts ==
    /\ []C26_CountInv
    /\ [][\A l, r \in Borrowed :
            Did({"assignBorrow"}) /\ assignBorrow(l, r)
              => /\ refcount_' = refcount_
                 /\ ostate' = ostate
                 /\ nfree' = nfree
                 /\ borrow_'[l] = [tag |-> "borrowed", impl |-> borrow_[r].impl]
                 /\ borrow_'[r] = borrow_[r]
                 /\ last'.tmp = Null
                 /\ live' = live /\ impl_' = impl_]_vars

\* lhs borrowed a TensorImpl with one owner, and was assigned a borrow of
\* another TensorImpl with one owner.
C26_Witness ==
    /\ last.op = "assignBorrow"
    /\ last.old # Null
    /\ borrow_[last.l].impl # Null
    /\ borrow_[last.l].impl # last.old
    /\ refcount_[last.old] = 1
    /\ refcount_[borrow_[last.l].impl] = 1

\* ---------------------------------------------------------------- C27
\* C27: a copy or move assignment into a Tensor h that owns TensorImpl A,
\* from a Tensor that points to another TensorImpl B, gives up exactly one
\* reference to A (A is deleted when that was the last one, once) and leaves h
\* pointing to B; the copy assignment h = h leaves h defined, pointing to the
\* same TensorImpl, the count as it was and the TensorImpl not deleted.
C27_AssignReleasesOne ==
    [][\A h, g \in Handle : \A A \in Obj :
          /\ Did({"CopyAssign", "MoveAssign"})
          /\ CopyAssign(h, g) \/ MoveAssign(h, g)
          /\ impl_[h] = A
          => IF impl_[g] # A
             THEN /\ impl_'[h] = impl_[g]
                  /\ IF refcount_[A] = 1
                     THEN /\ ostate'[A] = "freed"
                          /\ nfree'[A] = nfree[A] + 1
                     ELSE /\ refcount_'[A] = refcount_[A] - 1
                          /\ ostate'[A] = "live"
                          /\ nfree'[A] = nfree[A]
             ELSE h = g
                  => /\ impl_'[h] = A
                     /\ refcount_'[A] = refcount_[A]
                     /\ ostate'[A] = "live"
                     /\ nfree'[A] = nfree[A]]_vars

\* A Tensor that holds the only reference to its TensorImpl was copy-assigned
\* to itself.
C27_Witness ==
    /\ last.op = "CopyAssign"
    /\ last.h = last.g
    /\ last.old # Null
    /\ impl_[last.h] = last.old
    /\ refcount_[last.old] = 1
    /\ ostate[last.old] = "live"

\* ---------------------------------------------------------------- C28
\* C28: borrow_from_optional_tensor(opt) returns, for an opt that holds a
\* Tensor, a borrowed MaybeOwned that points to the TensorImpl of that Tensor,
\* every count as before; for an empty opt, an owned MaybeOwned that holds an
\* undefined Tensor; and the destruction of either changes no count and
\* deletes nothing. Every count is the number of owning Tensors throughout.
C28_CountInv ==
    \A o \in Obj : ostate[o] = "live" => refcount_[o] = Cardinality({h \in live : impl_[h] = o})

C28_BorrowFromOptional ==
    /\ []C28_CountInv
    /\ [][\A v \in View, opt \in Handle \cup {NullOpt} :
            Did({"borrow_from_optional_tensor"}) /\ borrow_from_optional_tensor(v, opt)
              => /\ view'[v] = IF opt # NullOpt
                               THEN [tag |-> "borrowed", impl |-> impl_[opt]]
                               ELSE [tag |-> "owned", impl |-> Null]
                 /\ refcount_' = refcount_ /\ ostate' = ostate /\ nfree' = nfree]_vars
    /\ [][Did({"destroyBorrow", "DestroyOwned"})
            => refcount_' = refcount_ /\ ostate' = ostate /\ nfree' = nfree]_vars

\* The borrowed result for a Tensor that holds the only reference to its
\* TensorImpl was destroyed: the TensorImpl is alive with count 1.
C28_Witness ==
    /\ last.op = "destroyBorrow"
    /\ last.old # Null
    /\ ostate[last.old] = "live"
    /\ refcount_[last.old] = 1
    /\ nfree[last.old] = 0

\* ---------------------------------------------------------------- C29
\* C29: backward(gradient, retain_graph, create_graph, inputs) raises, and
\* calls _backward not at all, when inputs is given and empty; it calls
\* _backward once otherwise, with exactly the given list when inputs is given
\* and not empty and with an empty list when inputs is not given, and in both
\* cases with the gradient, retain_graph and create_graph it was given.
C29_BackwardForwards ==
    bcall.op = "backward" =>
        IF bcall.inputs.has_value /\ bcall.inputs.value = <<>>
        THEN /\ bcall.err # NoError
             /\ bcall.calls = <<>>
        ELSE /\ bcall.err = NoError
             /\ Len(bcall.calls) = 1
             /\ bcall.calls[1].inputs = IF bcall.inputs.has_value
                                         THEN bcall.inputs.value ELSE <<>>
             /\ bcall.calls[1].gradient.has_value
             /\ bcall.calls[1].gradient.value = bcall.gradient
             /\ bcall.calls[1].keep_graph = bcall.retain_graph
             /\ bcall.calls[1].create_graph = bcall.create_graph

\* backward was called with a gradient, retain_graph and an empty list of
\* inputs: it raised and made no call of _backward.
C29_Witness ==
    /\ bcall.op = "backward"
    /\ bcall.inputs = optional(<<>>)
    /\ bcall.gradient.defined
    /\ bcall.retain_graph = optional(TRUE)
    /\ bcall.err = EmptyInputs
    /\ bcall.calls = <<>>

====
